---------------------------- MODULE Spec2Model ----------------------------
(***************************************************************************)
(* State-machine model of the multi-step reasoning core of Merlin:         *)
(*   - ReasoningStep / ReasoningChain / ReasoningEngine                    *)
(*       (src/src/core/reasoning.py)                                       *)
(*   - ContextManager registry (src/src/core/context_manager.py)           *)
(*   - the orchestrator loop run_reasoning_chain                           *)
(*       (src/src/core/response_processor.py)                              *)
(*   - CommandVerifier / CommandExecutor                                   *)
(*       (src/src/commands/command_executor.py)                            *)
(***************************************************************************)
EXTENDS Integers, Sequences, FiniteSets, TLC

VARIABLES
    active_chains,   \* ReasoningEngine.active_chains : chain id -> chain
    contexts,        \* ContextManager.contexts       : chain id -> entries
    run,             \* the run_reasoning_chain coroutine (idle / awaiting)
    call,            \* the operation the last transition performed
    ret,             \* the value that operation returned
    now,             \* int(time.time()), the clock the context keys read
    hist,            \* per chain: what has been called on it (history)
    runs,            \* calls of run_reasoning_chain so far (history)
    command_line,    \* the command line handed to CommandVerifier
    verdict,         \* what CommandVerifier returned for it
    command_history,        \* CommandExecutor.command_history
    unsafe_attempt_count,   \* CommandExecutor.unsafe_attempt_count
    approved_directories,   \* the caller's context["approved_directories"]
    procs,           \* executions past their verification: id -> process
    last_result,     \* the result dict the executor returned last
    launched,        \* the subprocesses started so far (history)
    requested,       \* single-command executions requested (history)
    batch,           \* the execute_commands coroutine and what it has collected
    conversation,    \* the run_reasoning_chain coroutine of openai_response.py
    executed,        \* what the orchestrators did with the steps (history)
    request,         \* the process_and_play_response coroutine
    tool_args,       \* the tool_args of the step handed to CommandExecutor.execute_step
    indexed_directories,    \* DirectoryIndexer.indexed_directories (the paths)
    index_file,      \* the paths in ~/.merlin/directory_index.json
    vector_stores,   \* FileSearchManager.vector_stores : name -> store
    config_file,     \* "vector_stores" of ~/.merlin/file_search_config.json
    conversation_history,   \* openai_response.conversation_history
    turn             \* the run_conversation coroutine of openai_response.py

verifier_vars == <<command_line, verdict>>
executor_vars == <<command_history, unsafe_attempt_count, approved_directories, procs,
                   last_result, launched, requested, batch, tool_args>>
index_vars == <<indexed_directories, index_file, vector_stores, config_file>>
dialogue_vars == <<conversation_history, turn>>
orchestrator_vars == <<conversation, executed, request>>
vars == <<active_chains, contexts, run, call, ret, now, hist, runs,
          command_line, verdict, command_history, unsafe_attempt_count,
          approved_directories, procs, last_result, launched, requested, batch,
          conversation, executed, request, tool_args,
          indexed_directories, index_file, vector_stores, config_file,
          conversation_history, turn>>

-----------------------------------------------------------------------------
(* Bounds of the model *)

\* chains that create_chain may register
MaxChains == 1
\* steps a chain may hold
MaxSteps == 2
\* calls of run_reasoning_chain
MaxRuns == 1
\* fragments a checked command line is put together from
MaxTokens == 2
\* single-command executions requested of the executor
MaxRequests == 2
\* reads counted on one context entry
MaxAccess == 1
\* commands remembered in a context's command_history
MaxHistory == 1
\* arguments a checked file operation is given
MaxPaths == 2
\* commands in a batch handed to execute_commands
MaxBatch == 2
\* reads counted on one entry of a context called directly
MaxReads == 2
\* the latest reading of the clock
MaxTime == 1

-----------------------------------------------------------------------------
(* Values *)

\* identifiers create_chain can generate
ChainIds == 1..MaxChains
\* identifiers a caller can pass: 0 is a string create_chain never generated
CallerIds == 0..MaxChains

\* Python's None as a step result / a result dict with its success flag
NoneResult == [kind |-> "None", success |-> FALSE, error |-> ""]
ResultDict(ok, err) == [kind |-> "dict", success |-> ok, error |-> err]
\* results a caller hands to ReasoningEngine.execute_step
StepResults == {ResultDict(TRUE, ""), ResultDict(FALSE, "")}

\* Python's None as final_response / a response text
NoneResponse == [kind |-> "None", text |-> "", failed |-> <<>>, error |-> ""]
Text(t) == [kind |-> "str", text |-> t, failed |-> <<>>, error |-> ""]
\* responses a caller hands to ReasoningEngine.complete_chain
FinalResponses == {Text("a")}

\* tool names a plan request carries
PlanTools == {"execute_commands"}

\* return values
Ok(kind, hasNext) ==
    [kind |-> kind, error |-> "", has_next_step |-> hasNext, response |-> NoneResponse]
Error(msg) ==
    [kind |-> "error", error |-> msg, has_next_step |-> FALSE, response |-> NoneResponse]
Response(r) ==
    [kind |-> "response", error |-> "", has_next_step |-> FALSE, response |-> r]
NoReturn ==
    [kind |-> "none", error |-> "", has_next_step |-> FALSE, response |-> NoneResponse]

Call(op, cid) == [op |-> op, chain_id |-> cid]

-----------------------------------------------------------------------------
(* ReasoningStep, ReasoningChain *)

\* ReasoningStep.__init__
ReasoningStep(tool) == [tool_name |-> tool, result |-> NoneResult, is_completed |-> FALSE]

\* ReasoningStep.set_result
set_result(step, result) == [step EXCEPT !.result = result, !.is_completed = TRUE]

\* ReasoningChain.__init__
ReasoningChain ==
    [steps |-> <<>>, current_step_idx |-> 0, is_completed |-> FALSE,
     final_response |-> NoneResponse]

\* (mutant) the plan replaces the step list instead of extending it
add_steps_replacing(chain, tools) ==
    [chain EXCEPT !.steps = [i \in 1..Len(tools) |-> ReasoningStep(tools[i])]]

\* ReasoningChain.add_step, for each step of a plan in order
add_steps(chain, tools) == [chain EXCEPT !.steps = chain.steps \o [i \in 1..Len(tools) |-> ReasoningStep(tools[i])]]

\* ReasoningChain.get_current_step is not None
has_current_step(chain) ==
    0 <= chain.current_step_idx /\ chain.current_step_idx < Len(chain.steps)

\* (mutant) completion tested with > instead of >=
advance_late(chain) ==
    LET idx == chain.current_step_idx + 1
    IN  [chain EXCEPT !.current_step_idx = idx,
                      !.is_completed = IF idx > Len(chain.steps) THEN TRUE ELSE chain.is_completed]

\* (mutant) the cursor moves on by two
advance_skipping(chain) ==
    LET idx == chain.current_step_idx + 2
    IN  [chain EXCEPT !.current_step_idx = idx,
                      !.is_completed = IF idx >= Len(chain.steps) THEN TRUE ELSE chain.is_completed]

\* ReasoningChain.advance: the chain after the call
advance(chain) ==
    LET idx == chain.current_step_idx + 1
    IN  [chain EXCEPT !.current_step_idx = idx,
                      !.is_completed = IF idx >= Len(chain.steps) THEN TRUE ELSE chain.is_completed]

\* ReasoningChain.complete
complete(chain, final_response) ==
    [chain EXCEPT !.is_completed = TRUE, !.final_response = final_response]


-----------------------------------------------------------------------------
(* ReasoningEngine: each operation maps the registry to the registry after *)
(* the call and the value returned                                         *)

Outcome(chains, r) == [chains |-> chains, ret |-> r]

\* the identifier uuid4 yields: one that names no chain yet
NewChainId(chains) == Cardinality(DOMAIN chains) + 1

\* ReasoningEngine.create_chain
create_chain(chains) ==
    Outcome(chains @@ (NewChainId(chains) :> ReasoningChain), Ok("chain_id", FALSE))

\* (mutant) advance is called although there is no current step
execute_step_advancing(chains, chain_id, step_result) ==
    IF chain_id \notin DOMAIN chains
    THEN Outcome(chains, Error("Chain not found"))
    ELSE LET chain == chains[chain_id]
         IN  IF ~has_current_step(chain)
             THEN Outcome([chains EXCEPT ![chain_id] = advance(chain)], Error("No current step"))
             ELSE LET i == chain.current_step_idx + 1
                      recorded == [chain EXCEPT !.steps[i] = set_result(chain.steps[i], step_result)]
                      after == advance(recorded)
                  IN  Outcome([chains EXCEPT ![chain_id] = after],
                              Ok("context", after.current_step_idx < Len(after.steps)))

\* ReasoningEngine.execute_step
execute_step(chains, chain_id, step_result) ==
    IF chain_id \notin DOMAIN chains
    THEN Outcome(chains, Error("Chain not found"))
    ELSE LET chain == chains[chain_id]
         IN  IF ~has_current_step(chain)
             THEN Outcome(chains, Error("No current step"))
             ELSE LET i == chain.current_step_idx + 1
                      recorded == [chain EXCEPT !.steps[i] = set_result(chain.steps[i], step_result)]
                      after == advance(recorded)
                  IN  Outcome([chains EXCEPT ![chain_id] = after],
                              Ok("context", after.current_step_idx < Len(after.steps)))

\* (mutant) an unknown chain id gets a fresh chain, which is then completed
complete_chain_or_create(chains, chain_id, final_response) ==
    LET known == IF chain_id \in DOMAIN chains THEN chains
                 ELSE chains @@ (chain_id :> ReasoningChain)
    IN  Outcome([known EXCEPT ![chain_id] = complete(known[chain_id], final_response)],
                Ok("completed", FALSE))

\* ReasoningEngine.complete_chain
complete_chain(chains, chain_id, final_response) ==
    IF chain_id \notin DOMAIN chains
    THEN Outcome(chains, Error("Chain not found"))
    ELSE Outcome([chains EXCEPT ![chain_id] = complete(chains[chain_id], final_response)],
                 Ok("completed", FALSE))

\* ReasoningEngine.handle_request; data carries the keys the action reads
handle_request(chains, chain_id, action, data) ==
    IF chain_id \notin DOMAIN chains /\ action # "create"
    THEN Outcome(chains, Error("Chain not found"))
    ELSE CASE action = "create" ->
                IF ~data.has_query THEN Outcome(chains, Error("Query is required"))
                ELSE create_chain(chains)
           [] action = "plan" ->
                Outcome([chains EXCEPT ![chain_id] = add_steps(chains[chain_id], data.steps)],
                        Ok("context", FALSE))
           [] action = "execute" -> execute_step(chains, chain_id, data.result)
           [] action = "complete" -> complete_chain(chains, chain_id, data.final_response)
           [] OTHER -> Outcome(chains, Error("Unknown action"))


-----------------------------------------------------------------------------
(* ReasoningContext, ContextManager *)

\* s[i:].startswith(w), i counted from 1
StartsWithAt(s, i, w) ==
    /\ i + Len(w) - 1 <= Len(s)
    /\ \A k \in 1..Len(w) : s[i + k - 1] = w[k]

\* w in s
Contains(s, w) == \E i \in 1..(Len(s) - Len(w) + 1) : StartsWithAt(s, i, w)

\* a context value that is not a step result (a list, a string, a flag)
Value(kind) == [kind |-> kind, success |-> FALSE, error |-> ""]
Flag(b) == [kind |-> "bool", success |-> b, error |-> ""]
\* a string with its text, a list with its items
Str(text) == [kind |-> "str", success |-> FALSE, error |-> "", text |-> text]
List(items) ==
    [kind |-> "list", success |-> FALSE, error |-> "", len |-> Len(items), items |-> items]

Key(name) == <<name, 0>>
StepResultKey(step_id) == <<"step_result", step_id>>

\* ContextEntry.__init__
ContextEntry(value, source, t) ==
    [value |-> value, source |-> source, timestamp |-> t, access_count |-> 0]

\* ReasoningContext.set
set(entries, key, value, source, t) ==
    [k \in DOMAIN entries \cup {key} |->
        IF k = key THEN ContextEntry(value, source, t) ELSE entries[k]]

\* ReasoningContext.get: the entries after the read (ContextEntry.access)
get(entries, key) ==
    IF key \in DOMAIN entries
    THEN [entries EXCEPT ![key].access_count = @ + 1]
    ELSE entries

\* (mutant) an absent key is created instead of refused
update_or_set(entries, key, value, source, t) ==
    IF key \notin DOMAIN entries THEN set(entries, key, value, source, t)
    ELSE [entries EXCEPT ![key].value = value,
                         ![key].source = IF source = "None" THEN @ ELSE source,
                         ![key].timestamp = t]

\* ReasoningContext.update: the entries after the call; source "None" keeps
\* the entry's source
update(entries, key, value, source, t) ==
    IF key \notin DOMAIN entries THEN entries
    ELSE [entries EXCEPT ![key].value = value,
                         ![key].source = IF source = "None" THEN @ ELSE source,
                         ![key].timestamp = t]

\* ReasoningContext.__init__ with initialize_default_context
ReasoningContext(t) ==
    set(set(<<>>, Key("approved_directories"), Value("list"), "system", t),
        Key("current_directory"), Value("str"), "system", t)

\* ContextManager.get_context: the registry after the call
get_context(ctxs, chain_id, t) ==
    IF chain_id \in DOMAIN ctxs THEN ctxs ELSE ctxs @@ (chain_id :> ReasoningContext(t))

\* ReasoningContext.update_from_command_result: the time-keyed raw result,
\* the last_* entries, the command_history list read with get and stored
\* again with set, and the entries for a mkdir and for a mv or cp; command
\* is result.get("command", "")
update_from_command_result(entries, result, t) ==
    LET command == IF "command" \in DOMAIN result THEN result.command ELSE <<>>
        e1 == set(entries, <<"command_result", t>>, result, "command_execution", t)
        e2 == set(e1, Key("last_command"), Str(command), "command_execution", t)
        e3 == set(e2, Key("last_command_output"), Value("str"), "command_execution", t)
        e4 == set(e3, Key("last_command_success"), Flag(result.success), "command_execution", t)
        history == IF Key("command_history") \in DOMAIN e4
                   THEN e4[Key("command_history")].value.items ELSE <<>>
        e5 == get(e4, Key("command_history"))
        e6 == set(e5, Key("command_history"), List(Append(history, command)),
                  "command_execution", t)
        e7 == IF Contains(command, <<"m", "k", "d", "i", "r">>)
              THEN set(e6, Key("last_created_directory"), Value("str"), "command_execution", t)
              ELSE e6
    IN  IF Contains(command, <<"m", "v">>) \/ Contains(command, <<"c", "p">>)
        THEN set(e7, Key("last_file_operation"), Str(command), "command_execution", t)
        ELSE e7

\* ContextManager.update_context_from_step_result: the registry after
update_context_from_step_result(ctxs, chain_id, step_result, step_id, tool_name, t) ==
    LET c0 == get_context(ctxs, chain_id, t)
        e0 == c0[chain_id]
        e1 == IF tool_name = "execute_commands"
              THEN update_from_command_result(e0, step_result, t)
              ELSE e0
    IN  [c0 EXCEPT ![chain_id] = set(e1, StepResultKey(step_id), step_result, "reasoning", t)]

RECURSIVE read_previous(_, _, _)
\* the loop of get_step_context: get() on every recorded step_result_<i>, i < step_id
read_previous(entries, i, step_id) ==
    IF i >= step_id THEN entries
    ELSE read_previous(get(entries, StepResultKey(i)), i + 1, step_id)

\* ContextManager.get_step_context: the registry after the call
get_step_context(ctxs, chain_id, step_id, t) ==
    LET c0 == get_context(ctxs, chain_id, t)
    IN  [c0 EXCEPT ![chain_id] = read_previous(c0[chain_id], 0, step_id)]


\* the key previous_step_<i>_result of a step context
PreviousKey(i) == <<"previous_step_result", i>>

\* ContextManager.get_step_context: the dict it returns, from the entries of
\* the chain's context: get_all(), then previous_step_<i>_result for every
\* recorded step_result_<i> with i < step_id
step_context(entries, step_id) ==
    LET previous == { PreviousKey(i) : i \in { j \in 0..(step_id - 1) :
                                                  StepResultKey(j) \in DOMAIN entries } }
    IN  [k \in DOMAIN entries \cup previous |->
            IF k \in previous THEN entries[StepResultKey(k[2])].value ELSE entries[k].value]

-----------------------------------------------------------------------------
(* The orchestrator: execute_reasoning_step and run_reasoning_chain of     *)
(* response_processor.py.  The coroutine runs without interruption from    *)
(* one suspension to the next; it suspends where a step's commands run as  *)
(* subprocesses (await command_executor.execute_step).                     *)

Idle == [pc |-> "idle", chain_id |-> 0, idx |-> 0]
\* the coroutine of openai_response.py was not called
NoConversation ==
    [pc |-> "idle", chain_id |-> 0, step_id |-> 0, raised_in |-> "", returned |-> NoneResponse]
\* process_and_play_response was not called
NoRequest ==
    [pc |-> "idle", branch |-> "", transcription |-> <<>>, answer |-> <<>>, chain_id |-> 0,
     route |-> ""]
Awaiting(chain_id, idx) == [pc |-> "await", chain_id |-> chain_id, idx |-> idx]

\* what dispatching a step on its tool_name can do before any suspension:
\* return a result, raise, or suspend on the subprocess of a command.
\* execute_commands: every command of the batch is rejected (a batch result
\* has no "error" key), the arguments name no command, tool_args is no dict
\* (AttributeError), or a verified command is launched
Dispatch(tool_name) ==
    CASE tool_name = "execute_commands" ->
            { [kind |-> "return", result |-> ResultDict(FALSE, "")],
              [kind |-> "return", result |-> ResultDict(FALSE, "Missing required parameters")],
              [kind |-> "raise", result |-> ResultDict(FALSE, "raised")],
              [kind |-> "await", result |-> NoneResult] }
      [] tool_name \in {"synthesize", "none"} ->
            { [kind |-> "return", result |-> ResultDict(TRUE, "")] }
      [] OTHER ->
            { [kind |-> "return", result |-> ResultDict(FALSE, "Unknown tool")] }

\* what the awaited batch hands back: all commands succeeded, or one did not
Completions == {ResultDict(TRUE, ""), ResultDict(FALSE, "")}

RECURSIVE failed_steps_first(_, _)
\* (mutant) only the first failed step is named
failed_steps_first(steps, i) ==
    IF i > Len(steps) THEN <<>>
    ELSE IF steps[i].is_completed /\ ~steps[i].result.success THEN <<i>>
    ELSE failed_steps_first(steps, i + 1)

RECURSIVE failed_steps(_, _)
\* [i+1 for i, step in enumerate(steps) if step.is_completed and not success]
failed_steps(steps, i) ==
    IF i > Len(steps) THEN <<>>
    ELSE (IF steps[i].is_completed /\ ~steps[i].result.success THEN <<i>> ELSE <<>>)
         \o failed_steps(steps, i + 1)

\* the final response run_reasoning_chain builds from the step results
summary(chain) ==
    LET failed == failed_steps(chain.steps, 1)
    IN  IF failed = <<>>
        THEN [kind |-> "str", text |-> "He completado tu solicitud", failed |-> <<>>, error |-> ""]
        ELSE [kind |-> "str", text |-> "No pude completar tu solicitud", failed |-> failed,
              error |-> LET e == chain.steps[failed[1]].result.error
                        IN  IF e = "" THEN "Error desconocido" ELSE e]

\* "not chain.final_response": None or the empty string
is_falsy(response) == response.kind = "None" \/ response.text = ""

\* run_reasoning_chain after its loop: mark completed, build the response once
finish(chain) ==
    LET done == [chain EXCEPT !.is_completed = TRUE]
    IN  IF is_falsy(done.final_response)
        THEN [done EXCEPT !.final_response = summary(done)]
        ELSE done

\* one iteration's tail: step.set_result(result); chain.current_step_idx = idx + 1
record_step(chain, idx, result) ==
    [chain EXCEPT !.steps[idx + 1] = set_result(chain.steps[idx + 1], result),
                  !.current_step_idx = idx + 1]

\* what an orchestrator did with a step (history): it started executing it,
\* the execution raised, or a result was recorded on the step; by is the
\* number of the run_reasoning_chain call of response_processor.py, 0 for
\* the coroutine of openai_response.py
Event(by, chain_id, step_id, event) ==
    [by |-> by, chain_id |-> chain_id, step_id |-> step_id, event |-> event]

RECURSIVE run_loop(_, _, _, _, _, _, _)
\* the while loop of run_reasoning_chain from local index idx up to the next
\* suspension or the return: the set of states it can leave behind; trace is
\* the history so far and n the number of this run
run_loop(chains, ctxs, chain_id, idx, t, trace, n) ==
    LET chain == chains[chain_id]
    IN  IF idx >= Len(chain.steps)
        THEN LET done == finish(chain)
             IN  { [chains |-> [chains EXCEPT ![chain_id] = done], ctxs |-> ctxs,
                    run |-> Idle, ret |-> Response(done.final_response),
                    executed |-> trace] }
        ELSE LET step == chain.steps[idx + 1]
                 c1 == get_step_context(ctxs, chain_id, idx, t)
                 started == Append(trace, Event(n, chain_id, idx, "start"))
                 raised == Append(started, Event(n, chain_id, idx, "raise"))
             IN  UNION { CASE d.kind = "await" ->
                                { [chains |-> chains, ctxs |-> c1,
                                   run |-> Awaiting(chain_id, idx), ret |-> NoReturn,
                                   executed |-> started] }
                           [] d.kind = "return" ->
                                run_loop([chains EXCEPT ![chain_id] = record_step(chain, idx, d.result)],
                                         update_context_from_step_result(c1, chain_id, d.result, idx, step.tool_name, t),
                                         chain_id, idx + 1, t,
                                         Append(started, Event(n, chain_id, idx, "record")), n)
                           [] OTHER ->
                                run_loop([chains EXCEPT ![chain_id] = record_step(chain, idx, d.result)],
                                         c1, chain_id, idx + 1, t,
                                         Append(raised, Event(n, chain_id, idx, "record")), n)
                         : d \in Dispatch(step.tool_name) }

\* the coroutine resumed with the result of the awaited commands
resume(chains, ctxs, r, result, t, trace, n) ==
    LET chain == chains[r.chain_id]
        step == chain.steps[r.idx + 1]
    IN  run_loop([chains EXCEPT ![r.chain_id] = record_step(chain, r.idx, result)],
                 update_context_from_step_result(ctxs, r.chain_id, result, r.idx, step.tool_name, t),
                 r.chain_id, r.idx + 1, t,
                 Append(trace, Event(n, r.chain_id, r.idx, "record")), n)


-----------------------------------------------------------------------------
(* The orchestrator of openai_response.py: run_reasoning_chain,            *)
(* execute_reasoning_step and complete_reasoning_chain.  The coroutine     *)
(* suspends in the planning call, in a step's tool (commands, file search  *)
(* or a model call), in the model call of complete_reasoning_chain and in  *)
(* run_conversation; its chain id is a local that is handed to nobody.     *)

\* the coroutine suspended in stage pc while working on step step_id
Waiting(pc, chain_id, step_id) ==
    [pc |-> pc, chain_id |-> chain_id, step_id |-> step_id, raised_in |-> "",
     returned |-> NoneResponse]
\* an exception left run_reasoning_chain; it was raised in stage pc
Raised(pc, chain_id, step_id) ==
    [pc |-> "raised", chain_id |-> chain_id, step_id |-> step_id, raised_in |-> pc,
     returned |-> NoneResponse]
\* run_reasoning_chain returned text to its caller
Returned_text(chain_id, text) ==
    [pc |-> "returned", chain_id |-> chain_id, step_id |-> 0, raised_in |-> "",
     returned |-> Text(text)]

\* the texts: what the tools hand back, the model's synthesis, the return
\* value of run_reasoning_chain after a plan, and run_conversation's answer
ToolOutput == [kind |-> "str", success |-> FALSE, error |-> ""]
FINAL_RESPONSE == "final response"
WORKING_ON_STEP_1 == "I'll help you with your request. Working on step 1"
ASSISTANT_RESPONSE == "assistant response"

\* the tool names a plan of the model can carry: those of the schema, a
\* missing tool_name, and a name outside the schema
ConversationTools == {"execute_commands", "search_files", "synthesize", "none", "unknown_tool"}

\* the if/elif chain of execute_reasoning_step up to its first suspension:
\* the tool is awaited, a result is there at once ("No commands specified.",
\* "No search query specified.", or None where no branch is taken), or
\* reading tool_args raises
Branches(tool_name) ==
    CASE tool_name \in {"execute_commands", "search_files"} ->
            { [kind |-> "await", result |-> NoneResult],
              [kind |-> "return", result |-> ToolOutput],
              [kind |-> "raise", result |-> NoneResult] }
      [] tool_name \in {"synthesize", "none"} ->
            { [kind |-> "await", result |-> NoneResult] }
      [] OTHER ->
            { [kind |-> "return", result |-> NoneResult] }

\* what leaves a step of the coroutine behind
Turn(chains, conv, trace) == [chains |-> chains, conversation |-> conv, executed |-> trace]

RECURSIVE execute_reasoning_step(_, _, _, _)
RECURSIVE record_and_advance(_, _, _, _, _)

\* execute_reasoning_step(chain_id, step) from its start to its first
\* suspension, through the steps that need none
execute_reasoning_step(chains, chain_id, step_id, trace) ==
    LET step == chains[chain_id].steps[step_id + 1]
        started == Append(trace, Event(0, chain_id, step_id, "start"))
    IN  UNION { CASE d.kind = "await" ->
                       { Turn(chains, Waiting("tool", chain_id, step_id), started) }
                  [] d.kind = "return" ->
                       record_and_advance(chains, chain_id, step_id, d.result, started)
                  [] OTHER ->
                       { Turn(chains, Raised("tool", chain_id, step_id),
                              Append(started, Event(0, chain_id, step_id, "raise"))) }
                : d \in Branches(step.tool_name) }

\* execute_reasoning_step from "Record result and advance chain": the
\* engine's execute_step, then the next step or complete_reasoning_chain,
\* which suspends in its model call
record_and_advance(chains, chain_id, step_id, result, trace) ==
    LET o == execute_step(chains, chain_id, result)
        cursor == chains[chain_id].current_step_idx
        recorded == IF o.ret.kind = "error" THEN trace
                    ELSE Append(trace, Event(0, chain_id, cursor, "record"))
    IN  IF o.ret.has_next_step
        THEN execute_reasoning_step(o.chains, chain_id, o.chains[chain_id].current_step_idx,
                                    recorded)
        ELSE { Turn(o.chains, Waiting("completing", chain_id, step_id), recorded) }

\* run_reasoning_chain(query) from the planning response to its first
\* suspension: the chain is created; a plan_reasoning call with its steps
\* (has_plan) is applied and the current step executed, where an empty
\* chain has none and step.tool_name raises AttributeError; without a tool
\* call run_conversation is awaited
planned(chains, has_plan, tools, trace) ==
    LET chain_id == NewChainId(chains)
        created == create_chain(chains).chains
        p == handle_request(created, chain_id, "plan",
                            [has_query |-> FALSE, steps |-> tools, result |-> NoneResult,
                             final_response |-> NoneResponse]).chains
    IN  IF ~has_plan THEN { Turn(created, Waiting("fallback", chain_id, 0), trace) }
        ELSE IF ~has_current_step(p[chain_id])
        THEN { Turn(p, Raised("tool", chain_id, -1),
                    Append(trace, Event(0, chain_id, -1, "raise"))) }
        ELSE execute_reasoning_step(p, chain_id, p[chain_id].current_step_idx, trace)

\* complete_reasoning_chain after its model call, and the return of
\* run_reasoning_chain through the finished execute_reasoning_step calls
complete_reasoning_chain(chains, chain_id, trace) ==
    Turn(complete_chain(chains, chain_id, Text(FINAL_RESPONSE)).chains,
         Returned_text(chain_id, WORKING_ON_STEP_1), trace)


-----------------------------------------------------------------------------
(* CommandVerifier.is_dangerous (command_executor.py).  A command line is   *)
(* the sequence of its characters; each regular expression of              *)
(* DANGEROUS_PATTERNS is an operator that decides re.search on it.          *)

\* the characters \s matches among those the commands are written with
Whitespace == {" ", "\t", "\n", "\r"}
\* "." matches every character but the newline
NotNewline(c) == c # "\n"

\* every character of s[a..b] is in S (true of an empty stretch)
AllIn(s, a, b, S) == \A k \in a..b : s[k] \in S

\* re.search(r"rm\s+(-[rf]+\s+)?/", s)
search_rm_root(s) ==
    \E i \in 1..Len(s) :
        /\ StartsWithAt(s, i, <<"r", "m">>)
        /\ \E p \in (i + 3)..Len(s) :
              /\ AllIn(s, i + 2, p - 1, Whitespace)
              /\ \/ s[p] = "/"
                 \/ /\ s[p] = "-"
                    /\ \E q \in (p + 2)..Len(s) : \E r \in (q + 1)..Len(s) :
                          /\ AllIn(s, p + 1, q - 1, {"r", "f"})
                          /\ AllIn(s, q, r - 1, Whitespace)
                          /\ s[r] = "/"

\* re.search(r"chmod\s+777", s)
search_chmod_777(s) ==
    \E i \in 1..Len(s) :
        /\ StartsWithAt(s, i, <<"c", "h", "m", "o", "d">>)
        /\ \E p \in (i + 6)..Len(s) :
              /\ AllIn(s, i + 5, p - 1, Whitespace)
              /\ StartsWithAt(s, p, <<"7", "7", "7">>)

\* re.search(r">(>)?.*/(passwd|shadow|group)", s)
search_system_file(s) ==
    \E i \in 1..Len(s) :
        /\ s[i] = ">"
        /\ \E j \in (i + 1)..Len(s) :
              /\ \A k \in (i + 1)..(j - 1) : NotNewline(s[k])
              /\ s[j] = "/"
              /\ \/ StartsWithAt(s, j + 1, <<"p", "a", "s", "s", "w", "d">>)
                 \/ StartsWithAt(s, j + 1, <<"s", "h", "a", "d", "o", "w">>)
                 \/ StartsWithAt(s, j + 1, <<"g", "r", "o", "u", "p">>)

\* re.search(r"dd\s+.*\s+of=/dev/", s)
search_dd_device(s) ==
    \E i \in 1..Len(s) :
        /\ StartsWithAt(s, i, <<"d", "d">>)
        /\ \E a \in (i + 3)..Len(s) : \E b \in a..Len(s) : \E q \in (b + 1)..Len(s) :
              /\ AllIn(s, i + 2, a - 1, Whitespace)
              /\ \A k \in a..(b - 1) : NotNewline(s[k])
              /\ AllIn(s, b, q - 1, Whitespace)
              /\ StartsWithAt(s, q, <<"o", "f", "=", "/", "d", "e", "v", "/">>)

\* re.search(r":(){:|:&};:", s): the pattern is the alternation of ":(){:",
\* whose group is empty, and ":&};:"
search_fork_bomb(s) ==
    \/ Contains(s, <<":", "{", ":">>)
    \/ Contains(s, <<":", "&", "}", ";", ":">>)

\* DANGEROUS_PATTERNS, in the order of the list
DANGEROUS_PATTERNS ==
    << "rm\\s+(-[rf]+\\s+)?/", "sudo", "chmod\\s+777", "mkfs",
       ">(>)?.*/(passwd|shadow|group)", "dd\\s+.*\\s+of=/dev/", ":(){:|:&};:" >>

\* re.search(DANGEROUS_PATTERNS[n], s)
search(n, s) ==
    CASE n = 1 -> search_rm_root(s)
      [] n = 2 -> Contains(s, <<"s", "u", "d", "o">>)
      [] n = 3 -> search_chmod_777(s)
      [] n = 4 -> Contains(s, <<"m", "k", "f", "s">>)
      [] n = 5 -> search_system_file(s)
      [] n = 6 -> search_dd_device(s)
      [] OTHER -> search_fork_bomb(s)

RECURSIVE split_from(_, _, _)
\* str.split(): the maximal stretches without whitespace, in order; word is
\* the stretch being read at position i
split_from(s, i, word) ==
    IF i > Len(s) THEN (IF word = <<>> THEN <<>> ELSE <<word>>)
    ELSE IF s[i] \in Whitespace
         THEN (IF word = <<>> THEN <<>> ELSE <<word>>) \o split_from(s, i + 1, <<>>)
         ELSE split_from(s, i + 1, Append(word, s[i]))

split(s) == split_from(s, 1, <<>>)

\* command.strip().split()[0] if command.strip() else ""
base_command(command) ==
    IF split(command) = <<>> THEN <<>> ELSE split(command)[1]

\* the commands is_dangerous always lets through
ESSENTIAL_COMMANDS == {<<"m", "k", "d", "i", "r">>, <<"m", "v">>, <<"c", "p">>}

\* SAFE_COMMAND_CATEGORIES, all categories together
SAFE_COMMANDS == {
    <<"l", "s">>, <<"c", "p">>, <<"m", "v">>, <<"m", "k", "d", "i", "r">>,
    <<"t", "o", "u", "c", "h">>, <<"c", "a", "t">>, <<"h", "e", "a", "d">>,
    <<"t", "a", "i", "l">>, <<"f", "i", "n", "d">>, <<"g", "r", "e", "p">>,
    <<"c", "d">>, <<"p", "w", "d">>, <<"f", "i", "l", "e">>,
    <<"s", "t", "a", "t">>, <<"d", "u">>, <<"d", "f">>, <<"w", "c">>,
    <<"t", "a", "r">>, <<"z", "i", "p">>, <<"u", "n", "z", "i", "p">>,
    <<"g", "z", "i", "p">>, <<"g", "u", "n", "z", "i", "p">>,
    <<"p", "i", "n", "g">>, <<"w", "g", "e", "t">>, <<"c", "u", "r", "l">> }

\* the commands allowed besides the categories
PRINT_COMMANDS == {<<"e", "c", "h", "o">>, <<"p", "r", "i", "n", "t", "f">>}

\* reasons is_dangerous gives
NoReason == [msg |-> "", pattern |-> "", arg |-> <<>>]
MatchesPattern(n) ==
    [msg |-> "Command matches dangerous pattern",
     pattern |-> DANGEROUS_PATTERNS[n], arg |-> <<>>]
NotAllowed(base) ==
    [msg |-> "Command is not in the allowed command list", pattern |-> "", arg |-> base]
Because(msg) == [msg |-> msg, pattern |-> "", arg |-> <<>>]

\* the pair is_dangerous returns
Verdict(dangerous, reason) == [is_dangerous |-> dangerous, reason |-> reason]

RECURSIVE first_match(_, _)
\* the loop over DANGEROUS_PATTERNS from the nth: the first that matches, 0 if none
first_match(command, n) ==
    IF n > Len(DANGEROUS_PATTERNS) THEN 0
    ELSE IF search(n, command) THEN n
    ELSE first_match(command, n + 1)

\* the "additional specific checks" at the end of is_dangerous
specific_checks(command) ==
    IF /\ Contains(command, <<">">>)
       /\ (Contains(command, <<"/", "e", "t", "c", "/">>) \/ Contains(command, <<"/", "v", "a", "r", "/">>))
    THEN Verdict(TRUE, Because("Command attempts to write to system directories"))
    ELSE IF /\ Contains(command, <<"|">>)
            /\ \/ Contains(command, <<"n", "o", "h", "u", "p">>)
               \/ Contains(command, <<"d", "a", "e", "m", "o", "n">>)
               \/ Contains(command, <<"&">>)
               \/ Contains(command, <<"d", "i", "s", "o", "w", "n">>)
    THEN Verdict(TRUE, Because("Command attempts to background execution with pipes"))
    ELSE Verdict(FALSE, NoReason)

\* base_command is in no category and is neither echo nor printf
not_allowed(base) == base \notin SAFE_COMMANDS /\ base \notin PRINT_COMMANDS

\* (mutant) the essential commands are let through before the patterns are tried
is_dangerous_essential_first(command) ==
    LET n == first_match(command, 1)
        base == base_command(command)
    IN  IF base \in ESSENTIAL_COMMANDS THEN Verdict(FALSE, NoReason)
        ELSE IF n # 0 THEN Verdict(TRUE, MatchesPattern(n))
        ELSE IF not_allowed(base) THEN Verdict(TRUE, NotAllowed(base))
        ELSE specific_checks(command)

\* (mutant) no early return for the essential commands
is_dangerous_no_essential(command) ==
    LET n == first_match(command, 1)
        base == base_command(command)
    IN  IF n # 0 THEN Verdict(TRUE, MatchesPattern(n))
        ELSE IF not_allowed(base) THEN Verdict(TRUE, NotAllowed(base))
        ELSE specific_checks(command)

\* CommandVerifier.is_dangerous
is_dangerous(command) ==
    LET n == first_match(command, 1)
        base == base_command(command)
    IN  IF n # 0 THEN Verdict(TRUE, MatchesPattern(n))
        ELSE IF base \in ESSENTIAL_COMMANDS THEN Verdict(FALSE, NoReason)
        ELSE IF not_allowed(base) THEN Verdict(TRUE, NotAllowed(base))
        ELSE specific_checks(command)

\* the pieces the checked command lines are put together from
Fragments == {
    <<"m", "k", "d", "i", "r">>, <<"c", "p">>, <<"m", "v">>, <<"l", "s">>,
    <<"r", "m">>, <<"f", "o", "o">>, <<"s", "u", "d", "o">>, <<"d", "d">>,
    <<"c", "h", "m", "o", "d">>, <<"-", "r", "f", " ", "/">>, <<"/">>,
    <<"7", "7", "7">>, <<">", "/", "e", "t", "c", "/", "x">>,
    <<">", "/", "x", "/", "p", "a", "s", "s", "w", "d">>,
    <<">", "\n", "/", "x", "/", "s", "h", "a", "d", "o", "w">>,
    <<"|", " ", "x", " ", "&">>,
    <<" ", "o", "f", "=", "/", "d", "e", "v", "/", "x">>,
    <<"m", "k", "f", "s">>,
    <<":", "(", ")", "{", ":", "|", ":", "&", "}", ";", ":">>, <<>> }

RECURSIVE CommandsOf(_)
\* the command lines of exactly n fragments, joined by single spaces
CommandsOf(n) ==
    IF n = 1 THEN Fragments
    ELSE { c \o <<" ">> \o f : c \in CommandsOf(n - 1), f \in Fragments }

\* the command lines the verifier is applied to
Commands == UNION { CommandsOf(n) : n \in 1..MaxTokens }

-----------------------------------------------------------------------------
(* CommandVerifier.verify_command_with_context: the paths of a file        *)
(* operation against the approved directories                               *)

\* os.path.expanduser("~") and os.getcwd() of the process
HOME_DIR == <<"/", "h">>
CWD == <<"/", "h", "/", "w">>

\* the verbs whose arguments are checked
FILE_OPERATIONS == {<<"c", "p">>, <<"m", "v">>, <<"r", "m">>, <<"m", "k", "d", "i", "r">>, <<"t", "o", "u", "c", "h">>}

\* what shlex.split returns, or that it raised ValueError
Words(words) == [ok |-> TRUE, words |-> words]
ParseError == [ok |-> FALSE, words |-> <<>>]

RECURSIVE shlex_read(_, _, _, _, _, _, _)
\* shlex (posix, whitespace_split, no comments) reading s from position i:
\*   state   " " between words, "a" in a word, a quote character inside
\*           quotes, "\\" after a backslash
\*   token   the word read so far; quoted: it had a quoted part
\*   escaped the state the backslash was met in
shlex_read(s, i, state, token, quoted, escaped, words) ==
    LET emit == IF token # <<>> \/ quoted THEN Append(words, token) ELSE words
    IN  IF i > Len(s)
        THEN CASE state \in {"'", "\""} -> ParseError
               [] state = "\\" -> ParseError
               [] OTHER -> Words(emit)
        ELSE LET c == s[i]
             IN  CASE state = " " ->
                        IF c \in Whitespace
                        THEN shlex_read(s, i + 1, " ", <<>>, FALSE, escaped, words)
                        ELSE IF c = "\\" THEN shlex_read(s, i + 1, "\\", <<>>, FALSE, "a", words)
                        ELSE IF c \in {"'", "\""} THEN shlex_read(s, i + 1, c, <<>>, FALSE, escaped, words)
                        ELSE shlex_read(s, i + 1, "a", <<c>>, FALSE, escaped, words)
                   [] state = "a" ->
                        IF c \in Whitespace
                        THEN shlex_read(s, i + 1, " ", <<>>, FALSE, escaped, emit)
                        ELSE IF c \in {"'", "\""} THEN shlex_read(s, i + 1, c, token, quoted, escaped, words)
                        ELSE IF c = "\\" THEN shlex_read(s, i + 1, "\\", token, quoted, "a", words)
                        ELSE shlex_read(s, i + 1, "a", Append(token, c), quoted, escaped, words)
                   [] state \in {"'", "\""} ->
                        IF c = state THEN shlex_read(s, i + 1, "a", token, TRUE, escaped, words)
                        ELSE IF c = "\\" /\ state = "\""
                        THEN shlex_read(s, i + 1, "\\", token, TRUE, state, words)
                        ELSE shlex_read(s, i + 1, state, Append(token, c), TRUE, escaped, words)
                   [] OTHER ->
                        LET kept == IF escaped \in {"'", "\""} /\ c # "\\" /\ c # escaped
                                    THEN Append(token, "\\") ELSE token
                        IN  shlex_read(s, i + 1, escaped, Append(kept, c), quoted, escaped, words)

\* shlex.split(command)
shlex_split(command) == shlex_read(command, 1, " ", <<>>, FALSE, "a", <<>>)

RECURSIVE components(_, _, _)
\* path.split("/") from position i; comp is the component being read
components(path, i, comp) ==
    IF i > Len(path) THEN <<comp>>
    ELSE IF path[i] = "/" THEN <<comp>> \o components(path, i + 1, <<>>)
    ELSE components(path, i + 1, Append(comp, path[i]))

RECURSIVE collapse(_, _, _)
\* the loop of posixpath.normpath over the components of an absolute path
collapse(comps, i, kept) ==
    IF i > Len(comps) THEN kept
    ELSE IF comps[i] \in {<<>>, <<".">>} THEN collapse(comps, i + 1, kept)
    ELSE IF comps[i] # <<".", ".">> THEN collapse(comps, i + 1, Append(kept, comps[i]))
    ELSE IF kept # <<>> THEN collapse(comps, i + 1, SubSeq(kept, 1, Len(kept) - 1))
    ELSE collapse(comps, i + 1, kept)

RECURSIVE join(_, _)
\* "/" + "/".join(comps[i:])
join(comps, i) ==
    IF i > Len(comps) THEN <<>>
    ELSE <<"/">> \o comps[i] \o join(comps, i + 1)

\* os.path.abspath(path) of a relative path: normpath(join(cwd, path))
abspath(path) ==
    LET kept == collapse(components(CWD \o <<"/">> \o path, 1, <<>>), 1, <<>>)
    IN  IF kept = <<>> THEN <<"/">> ELSE join(kept, 1)

\* [w for w in words[1:] if not w.startswith("-") and "/" in w]
paths_of(words) ==
    SelectSeq(SubSeq(words, 2, Len(words)),
              LAMBDA w : ~StartsWithAt(w, 1, <<"-">>) /\ Contains(w, <<"/">>))

\* path == approved_dir or path.startswith(approved_dir + "/"), for some
\* approved directory
is_approved(path, approved_dirs) ==
    \E k \in 1..Len(approved_dirs) :
        \/ path = approved_dirs[k]
        \/ StartsWithAt(path, 1, approved_dirs[k] \o <<"/">>)

RECURSIVE first_unapproved(_, _, _)
\* the loop over the paths: the first one outside the approved directories,
\* made absolute, or <<>> if there is none
first_unapproved(paths, i, approved_dirs) ==
    IF i > Len(paths) THEN <<>>
    ELSE LET path == IF StartsWithAt(paths[i], 1, <<"/">>) THEN paths[i] ELSE abspath(paths[i])
         IN  IF is_approved(path, approved_dirs) THEN first_unapproved(paths, i + 1, approved_dirs)
             ELSE path

Unapproved(path) ==
    [msg |-> "Command targets unapproved directory", pattern |-> "", arg |-> path]

\* the triple of verify_command_with_context: is_safe, reason and the
\* context's approved_directories list after the call
Verified(is_safe, reason, approved_dirs) ==
    [is_safe |-> is_safe, reason |-> reason, approved_directories |-> approved_dirs]

\* CommandVerifier.verify_command_with_context(command, context), with
\* approved_dirs the list under context["approved_directories"]
verify_command_with_context(command, approved_dirs) ==
    LET danger == is_dangerous(command)
        words == split(command)
        with_home == IF \E k \in 1..Len(approved_dirs) : approved_dirs[k] = HOME_DIR
                     THEN approved_dirs ELSE Append(approved_dirs, HOME_DIR)
        parsed == shlex_split(command)
        outside == first_unapproved(paths_of(parsed.words), 1, with_home)
    IN  IF danger.is_dangerous THEN Verified(FALSE, danger.reason, approved_dirs)
        ELSE IF ~\E k \in 1..Len(words) : words[k] \in FILE_OPERATIONS
        THEN Verified(TRUE, NoReason, approved_dirs)
        ELSE IF ~parsed.ok THEN Verified(TRUE, NoReason, with_home)
        ELSE IF outside # <<>> THEN Verified(FALSE, Unapproved(outside), with_home)
        ELSE Verified(TRUE, NoReason, with_home)

\* no verdict yet
NoVerdict == [is_dangerous |-> FALSE, reason |-> Because("not verified")]

-----------------------------------------------------------------------------
(* CommandExecutor: execute_command and execute_background_command          *)

\* result["error"]: None, the rejection with its reason, stderr, str(e)
NoError == [kind |-> "None", reason |-> NoReason]
ErrorOf(kind) == [kind |-> kind, reason |-> NoReason]
UnsafeCommandRejected(reason) == [kind |-> "Unsafe command rejected", reason |-> reason]

\* the result dict; return_code is -1 where the key is not set
Result(cmd, success, output, error, return_code) ==
    [command |-> cmd, success |-> success, output |-> output, error |-> error,
     return_code |-> return_code]
NoResult == Result(<<>>, FALSE, "None", NoError, -1)

\* what a finished subprocess hands back: whether stdout and stderr hold
\* anything, and its exit status
Outputs == [stdout : BOOLEAN, stderr : BOOLEAN, returncode : {0, 1}]

\* (mutant) stderr is looked at before stdout
process_result_stderr_first(cmd, out) ==
    IF out.stderr THEN Result(cmd, FALSE, "Error: stderr", ErrorOf("stderr"), out.returncode)
    ELSE IF out.stdout THEN Result(cmd, TRUE, "stdout", NoError, out.returncode)
    ELSE Result(cmd, TRUE, "Command executed successfully, but there was no output.",
                NoError, out.returncode)

\* execute_command after process.communicate(): the result it returns
process_result(cmd, out) ==
    IF out.stdout THEN Result(cmd, TRUE, "stdout", NoError, out.returncode)
    ELSE IF out.stderr THEN Result(cmd, FALSE, "Error: stderr", ErrorOf("stderr"), out.returncode)
    ELSE Result(cmd, TRUE, "Command executed successfully, but there was no output.",
                NoError, out.returncode)

\* the except branch of execute_command / execute_background_command
exception_result(cmd, background) ==
    Result(cmd, FALSE,
           IF background THEN "Error starting background command" ELSE "Error executing command",
           ErrorOf("exception"), -1)

\* execute_background_command once the process is started
started_result(cmd) == Result(cmd, TRUE, "started in the background", NoError, -1)

\* the entry of command_history for a command
BACKGROUND_PREFIX == <<"[", "b", "a", "c", "k", "g", "r", "o", "u", "n", "d", "]", " ">>
history_entry(cmd, background) == IF background THEN BACKGROUND_PREFIX \o cmd ELSE cmd

\* what the synchronous head of an execution leaves behind: the executor's
\* fields, the result if it returned, whether it goes on to launch cmd, and
\* the context's approved_directories
Synchronous(history, count, result, launches, approved_dirs) ==
    [command_history |-> history, unsafe_attempt_count |-> count, result |-> result,
     launches |-> launches, approved_directories |-> approved_dirs]

\* (mutant) a rejection is returned without being counted
execute_head_not_counting(history, count, cmd, background, approved_dirs) ==
    LET v == verify_command_with_context(cmd, approved_dirs)
    IN  IF ~v.is_safe
        THEN Synchronous(history, count, Result(cmd, FALSE, "", UnsafeCommandRejected(v.reason), -1),
                  FALSE, v.approved_directories)
        ELSE Synchronous(Append(history, history_entry(cmd, background)), count, NoResult,
                  TRUE, v.approved_directories)

\* (mutant) the command is logged before it is verified
execute_head_logging_first(history, count, cmd, background, approved_dirs) ==
    LET v == verify_command_with_context(cmd, approved_dirs)
        logged == Append(history, history_entry(cmd, background))
    IN  IF ~v.is_safe
        THEN Synchronous(logged, count + 1, Result(cmd, FALSE, "", UnsafeCommandRejected(v.reason), -1),
                  FALSE, v.approved_directories)
        ELSE Synchronous(logged, count, NoResult, TRUE, v.approved_directories)

\* execute_command / execute_background_command up to the subprocess call:
\* verify, then count the rejection and return, or log the command
execute_head(history, count, cmd, background, approved_dirs) ==
    LET v == verify_command_with_context(cmd, approved_dirs)
    IN  IF ~v.is_safe
        THEN Synchronous(history, count + 1, Result(cmd, FALSE, "", UnsafeCommandRejected(v.reason), -1),
                  FALSE, v.approved_directories)
        ELSE Synchronous(Append(history, history_entry(cmd, background)), count, NoResult,
                  TRUE, v.approved_directories)

\* an execution between its subprocess call and its return
Process(cmd, background, approved_dirs, pc) ==
    [command |-> cmd, background |-> background, approved_directories |-> approved_dirs, pc |-> pc]

\* the command lines handed to the executor, and the lists a caller's
\* context holds under approved_directories
ExecutorCommands == {<<"l", "s">>, <<"s", "u", "d", "o", " ", "l", "s">>, <<"m", "k", "d", "i", "r", " ", "/", "s", "r", "v", "/", "x">>}
ApprovedLists == {<<>>, <<<<"/", "s", "r", "v">>>>}

-----------------------------------------------------------------------------
(* CommandExecutor.execute_commands: the batch                              *)

\* the coroutine of execute_commands: where it is, its arguments, the locals
\* results and all_success, and the calls and returns of execute_command it
\* has made so far, by index into commands (history)
NoBatch ==
    [pc |-> "idle", commands |-> <<>>, individual_results |-> <<>>, success |-> TRUE,
     trace |-> <<>>]

\* the index of the command the for loop is at
Current(b) == Len(b.individual_results) + 1

\* (mutant) the aggregate is the success of the command handled last
collect_last(b, result) ==
    [b EXCEPT !.individual_results = Append(@, result),
              !.success = result.success,
              !.trace = Append(@, <<"return", Current(b)>>)]

\* the body of the loop after execute_command returned: results.append(result);
\* if not result["success"]: all_success = False
collect(b, result) ==
    [b EXCEPT !.individual_results = Append(@, result),
              !.success = @ /\ result.success,
              !.trace = Append(@, <<"return", Current(b)>>)]

\* the executor's fields, the context's list and the batch together
Executor(history, count, approved_dirs, b) ==
    [command_history |-> history, unsafe_attempt_count |-> count,
     approved_directories |-> approved_dirs, batch |-> b]

RECURSIVE execute_commands(_, _, _, _)
RECURSIVE after_head(_, _)
\* the for loop of execute_commands from the current command up to the next
\* subprocess call of an execute_command, or to the return of the batch
execute_commands(history, count, approved_dirs, b) ==
    IF Current(b) > Len(b.commands)
    THEN Executor(history, count, approved_dirs, [b EXCEPT !.pc = "done"])
    ELSE after_head([b EXCEPT !.trace = Append(@, <<"call", Current(b)>>)],
                    execute_head(history, count, b.commands[Current(b)], FALSE,
                                 approved_dirs))

\* the current execute_command past its checks (h): it waits for its
\* subprocess, or has returned its rejection and the loop goes on
after_head(called, h) ==
    IF h.launches
    THEN Executor(h.command_history, h.unsafe_attempt_count, h.approved_directories,
                  [called EXCEPT !.pc = "launch"])
    ELSE execute_commands(h.command_history, h.unsafe_attempt_count,
                          h.approved_directories, collect(called, h.result))

RECURSIVE Batches(_)
\* the command lists of exactly n commands
Batches(n) ==
    IF n = 0 THEN {<<>>}
    ELSE { Append(cs, c) : cs \in Batches(n - 1), c \in ExecutorCommands }

-----------------------------------------------------------------------------
(* What has been called on each chain (history, for stating the claims):   *)
(*   pure     only create, then plan requests, then execute_step calls     *)
(*   execs    while pure: the calls of execute_step addressed to it,       *)
(*            counted up to MaxSteps + 1                                   *)
(*   planned  a plan request was addressed to it                           *)
(*   explicit complete_chain was called on it                              *)

NewHistory == [execs |-> 0, pure |-> TRUE, planned |-> FALSE, explicit |-> FALSE]

Min(a, b) == IF a < b THEN a ELSE b

Impure(h) == [h EXCEPT !.pure = FALSE, !.execs = 0]

Note(h, chain_id, op) ==
    IF chain_id \notin DOMAIN h THEN h
    ELSE CASE op = "plan" ->
                IF h[chain_id].execs = 0
                THEN [h EXCEPT ![chain_id].planned = TRUE]
                ELSE [h EXCEPT ![chain_id] = [Impure(@) EXCEPT !.planned = TRUE]]
           [] op = "execute" ->
                IF h[chain_id].pure
                THEN [h EXCEPT ![chain_id].execs = Min(@ + 1, MaxSteps + 1)]
                ELSE h
           [] op = "complete" ->
                [h EXCEPT ![chain_id] = [Impure(@) EXCEPT !.explicit = TRUE]]
           [] OTHER -> h

Track(chain_id, op) == hist' = Note(hist, chain_id, op) /\ UNCHANGED runs

-----------------------------------------------------------------------------
(* Actions of the engine *)

\* no chain, no context, no run
NoRequests ==
    /\ active_chains = <<>>
    /\ contexts = <<>>
    /\ run = Idle
    /\ call = Call("init", 0)
    /\ ret = NoReturn
    /\ now = 0
    /\ hist = <<>>
    /\ runs = 0
    /\ conversation = NoConversation
    /\ request = NoRequest
    /\ executed = <<>>

\* nothing handed to the verifier
NoVerification ==
    /\ command_line = <<>>
    /\ verdict = NoVerdict

\* a step without tool_args: tool_args or {}
NoToolArgs == <<>>

\* CommandExecutor.__init__
NoExecutions ==
    /\ command_history = <<>>
    /\ unsafe_attempt_count = 0
    /\ procs = <<>>
    /\ last_result = NoResult
    /\ launched = <<>>
    /\ requested = 0
    /\ batch = NoBatch

\* DirectoryIndexer.__init__ and FileSearchManager.__init__ with no files yet
\* no user turn has been handled: the history is empty, run_conversation
\* has not been called
NoTurn ==
    [pc |-> "idle", n |-> 0, depth |-> 0, classified |-> 0, messages |-> <<>>,
     tool_calls |-> <<>>, next |-> 0, followup |-> <<>>]
NoDialogue ==
    /\ conversation_history = <<>>
    /\ turn = NoTurn

NoIndex ==
    /\ indexed_directories = {}
    /\ index_file = {}
    /\ vector_stores = <<>>
    /\ config_file = <<>>

Init ==
    /\ NoRequests
    /\ NoVerification
    /\ NoExecutions
    /\ NoIndex
    /\ NoDialogue
    /\ tool_args = NoToolArgs
    /\ approved_directories = <<>>

\* the plans a request can carry for a chain: tool names, within MaxSteps
Plans(chains, chain_id) ==
    LET room == IF chain_id \in DOMAIN chains
                THEN MaxSteps - Len(chains[chain_id].steps) ELSE MaxSteps
    IN  UNION { [1..n -> PlanTools] : n \in 0..room }

\* reasoning_engine.create_chain(query)
CreateChain ==
    /\ LET o == create_chain(active_chains)
       IN  /\ active_chains' = o.chains
           /\ ret' = o.ret
    /\ call' = Call("create_chain", NewChainId(active_chains))
    /\ UNCHANGED <<contexts, run, now, verifier_vars, executor_vars, orchestrator_vars, index_vars, dialogue_vars>>

\* reasoning_engine.handle_request(chain_id, "plan", {"steps": ...})
Plan(chain_id) ==
    /\ \E steps \in Plans(active_chains, chain_id) :
          LET o == handle_request(active_chains, chain_id, "plan",
                                  [has_query |-> FALSE, steps |-> steps,
                                   result |-> NoneResult, final_response |-> NoneResponse])
          IN  /\ active_chains' = o.chains
              /\ ret' = o.ret
    /\ call' = Call("plan", chain_id)
    /\ UNCHANGED <<contexts, run, now, verifier_vars, executor_vars, orchestrator_vars, index_vars, dialogue_vars>>

\* reasoning_engine.execute_step(chain_id, step_result)
ExecuteStep(chain_id) ==
    /\ \E result \in StepResults :
          LET o == execute_step(active_chains, chain_id, result)
          IN  /\ active_chains' = o.chains
              /\ ret' = o.ret
    /\ call' = Call("execute_step", chain_id)
    /\ UNCHANGED <<contexts, run, now, verifier_vars, executor_vars, orchestrator_vars, index_vars, dialogue_vars>>

\* reasoning_engine.complete_chain(chain_id, final_response)
CompleteChain(chain_id) ==
    /\ \E final_response \in FinalResponses :
          LET o == complete_chain(active_chains, chain_id, final_response)
          IN  /\ active_chains' = o.chains
              /\ ret' = o.ret
    /\ call' = Call("complete_chain", chain_id)
    /\ UNCHANGED <<contexts, run, now, verifier_vars, executor_vars, orchestrator_vars, index_vars, dialogue_vars>>

\* the operation a handle_request action comes down to
Delegate(action) ==
    CASE action = "execute" -> "execute_step"
      [] action = "complete" -> "complete_chain"
      [] action = "create" -> "create_chain"
      [] OTHER -> action

\* reasoning_engine.handle_request(chain_id, action, data), action # "plan"
HandleRequest(chain_id, action, has_query) ==
    /\ \E result \in StepResults, final_response \in FinalResponses :
          LET o == handle_request(active_chains, chain_id, action,
                                  [has_query |-> has_query, steps |-> <<>>,
                                   result |-> result, final_response |-> final_response])
          IN  /\ active_chains' = o.chains
              /\ ret' = o.ret
    /\ call' = Call(Delegate(action),
                    IF action = "create" /\ has_query THEN NewChainId(active_chains) ELSE chain_id)
    /\ UNCHANGED <<contexts, run, now, verifier_vars, executor_vars, orchestrator_vars, index_vars, dialogue_vars>>

\* the engine's operations, called in any order with any chain id
NextEngine ==
    \/ /\ Cardinality(DOMAIN active_chains) < MaxChains
       /\ CreateChain
       /\ hist' = hist @@ (NewChainId(active_chains) :> NewHistory)
       /\ UNCHANGED runs
    \/ \E chain_id \in CallerIds :
          \/ Plan(chain_id) /\ Track(chain_id, "plan")
          \/ ExecuteStep(chain_id) /\ Track(chain_id, "execute")
          \/ CompleteChain(chain_id) /\ Track(chain_id, "complete")
          \/ HandleRequest(chain_id, "execute", TRUE) /\ Track(chain_id, "execute")
          \/ HandleRequest(chain_id, "complete", TRUE) /\ Track(chain_id, "complete")
          \/ HandleRequest(chain_id, "other", TRUE) /\ Track(chain_id, "other")
          \/ HandleRequest(chain_id, "create", FALSE) /\ Track(chain_id, "other")
          \/ /\ Cardinality(DOMAIN active_chains) < MaxChains
             /\ HandleRequest(chain_id, "create", TRUE)
             /\ hist' = hist @@ (NewChainId(active_chains) :> NewHistory)
             /\ UNCHANGED runs

SpecEngine == Init /\ [][NextEngine]_vars

-----------------------------------------------------------------------------
(* Actions of the orchestrator *)

\* run_reasoning_chain(chain_id) called: up to its first suspension or its return
RunStart(chain_id) ==
    /\ run.pc = "idle"
    /\ IF chain_id \notin DOMAIN active_chains
       THEN /\ ret' = Error("Reasoning chain not found")
            /\ UNCHANGED <<active_chains, contexts, run, runs, executed>>
       ELSE /\ runs < MaxRuns
            /\ runs' = runs + 1
            /\ \E o \in run_loop(active_chains, contexts, chain_id, 0, now, executed, runs + 1) :
                  /\ active_chains' = o.chains
                  /\ contexts' = o.ctxs
                  /\ run' = o.run
                  /\ ret' = o.ret
                  /\ executed' = o.executed
    /\ call' = Call("run_reasoning_chain", chain_id)
    /\ UNCHANGED <<now, hist, verifier_vars, executor_vars, conversation, request,
                   index_vars, dialogue_vars>>

\* the awaited commands finish: the coroutine goes on to its next suspension
RunResume ==
    /\ run.pc = "await"
    /\ \E result \in Completions :
       \E o \in resume(active_chains, contexts, run, result, now, executed, runs) :
          /\ active_chains' = o.chains
          /\ contexts' = o.ctxs
          /\ run' = o.run
          /\ ret' = o.ret
          /\ executed' = o.executed
    /\ call' = Call("run_reasoning_chain", run.chain_id)
    /\ UNCHANGED <<now, hist, runs, verifier_vars, executor_vars, conversation, request,
                   index_vars, dialogue_vars>>

\* one request: the chain process_and_play_response creates, the engine's
\* operations on it and on unknown ids, and the orchestrator's run
Next ==
    \/ /\ active_chains = <<>>
       /\ CreateChain
       /\ UNCHANGED <<hist, runs>>
    \/ \E chain_id \in CallerIds :
          \/ Plan(chain_id) /\ UNCHANGED <<hist, runs>>
          \/ ExecuteStep(chain_id) /\ UNCHANGED <<hist, runs>>
          \/ CompleteChain(chain_id) /\ UNCHANGED <<hist, runs>>
          \/ RunStart(chain_id)
    \/ RunResume

Spec == Init /\ [][Next]_vars

-----------------------------------------------------------------------------
(* Actions of the orchestrator of openai_response.py *)

\* the coroutine takes the turn o
Takes(o) ==
    /\ active_chains' = o.chains
    /\ conversation' = o.conversation
    /\ executed' = o.executed
    /\ ret' = IF o.conversation.pc = "returned" THEN Response(o.conversation.returned)
              ELSE NoReturn
    /\ call' = Call("conversation", o.conversation.chain_id)
    /\ UNCHANGED <<contexts, run, now, hist, runs, verifier_vars, executor_vars, request,
                   index_vars, dialogue_vars>>

\* the plans the model can answer the planning call with
ConversationPlans == UNION { [1..n -> ConversationTools] : n \in 0..MaxSteps }

\* run_reasoning_chain(query) called: it suspends in the planning call
RunReasoningChain ==
    /\ conversation.pc = "idle"
    /\ Takes(Turn(active_chains, Waiting("planning", 0, 0), executed))

\* the planning call returns a plan_reasoning tool call
PlanningReturnsPlan ==
    /\ conversation.pc = "planning"
    /\ Cardinality(DOMAIN active_chains \ {request.chain_id}) < MaxChains
    /\ \E tools \in ConversationPlans :
       \E o \in planned(active_chains, TRUE, tools, executed) : Takes(o)

\* the planning call returns no tool call
PlanningReturnsText ==
    /\ conversation.pc = "planning"
    /\ Cardinality(DOMAIN active_chains \ {request.chain_id}) < MaxChains
    /\ \E o \in planned(active_chains, FALSE, <<>>, executed) : Takes(o)

\* the awaited tool of the current step returns its output
ToolReturns ==
    /\ conversation.pc = "tool"
    /\ \E o \in record_and_advance(active_chains, conversation.chain_id,
                                     conversation.step_id, ToolOutput, executed) : Takes(o)

\* the model call of complete_reasoning_chain returns
CompletionReturns ==
    /\ conversation.pc = "completing"
    /\ Takes(complete_reasoning_chain(active_chains, conversation.chain_id, executed))

\* run_conversation(query) returns its answer
FallbackReturns ==
    /\ conversation.pc = "fallback"
    /\ Takes(Turn(active_chains, Returned_text(conversation.chain_id, ASSISTANT_RESPONSE),
                  executed))

\* the awaited call raises (the model API, the file search, the executor)
AwaitedRaises ==
    /\ conversation.pc \in {"planning", "tool", "completing", "fallback"}
    /\ Takes(Turn(active_chains,
                  Raised(conversation.pc, conversation.chain_id, conversation.step_id),
                  IF conversation.pc = "tool"
                  THEN Append(executed, Event(0, conversation.chain_id,
                                              conversation.step_id, "raise"))
                  ELSE executed))

\* the chain ids another caller can name: all but the coroutine's local
Others == { c \in CallerIds : conversation.pc \in {"idle", "planning"} \/ c # conversation.chain_id }

\* both orchestrators: the coroutine of openai_response.py on its own
\* chain, and a chain that is created, planned and run_reasoning_chain of
\* response_processor.py run on it
NextOrchestrators ==
    \/ RunReasoningChain
    \/ PlanningReturnsPlan
    \/ PlanningReturnsText
    \/ ToolReturns
    \/ CompletionReturns
    \/ FallbackReturns
    \/ AwaitedRaises
    \/ /\ Cardinality(DOMAIN active_chains) < MaxChains
       /\ CreateChain
       /\ UNCHANGED <<hist, runs>>
    \/ \E chain_id \in Others :
          \/ Plan(chain_id) /\ UNCHANGED <<hist, runs>>
          \/ RunStart(chain_id)
    \/ RunResume

SpecOrchestrators == Init /\ [][NextOrchestrators]_vars


-----------------------------------------------------------------------------
(* process_and_play_response (response_processor.py) and run_conversation  *)
(* (openai_response.py): how a request is routed.  A transcription and a   *)
(* classifier answer are the sequences of their characters.                *)

UPPERCASE == <<"A", "B", "C", "D", "E", "F", "G", "H", "I", "J", "K", "L", "M", "N", "O", "P", "Q", "R", "S", "T", "U", "V", "W", "X", "Y", "Z">>
LOWERCASE == <<"a", "b", "c", "d", "e", "f", "g", "h", "i", "j", "k", "l", "m", "n", "o", "p", "q", "r", "s", "t", "u", "v", "w", "x", "y", "z">>

\* str.lower and str.upper on the letters A-Z, a-z
lower(s) ==
    [i \in 1..Len(s) |->
        IF \E k \in 1..26 : UPPERCASE[k] = s[i]
        THEN LOWERCASE[CHOOSE k \in 1..26 : UPPERCASE[k] = s[i]] ELSE s[i]]
upper(s) ==
    [i \in 1..Len(s) |->
        IF \E k \in 1..26 : LOWERCASE[k] = s[i]
        THEN UPPERCASE[CHOOSE k \in 1..26 : LOWERCASE[k] = s[i]] ELSE s[i]]

\* str.strip
strip(s) ==
    LET kept == {i \in 1..Len(s) : s[i] \notin Whitespace}
    IN  IF kept = {} THEN <<>>
        ELSE SubSeq(s, CHOOSE i \in kept : \A j \in kept : i <= j,
                       CHOOSE i \in kept : \A j \in kept : j <= i)

\* str.startswith
startswith(s, w) == StartsWithAt(s, 1, w)

file_op_indicators ==
    <<<<"s", "e", "a", "r", "c", "h">>,
      <<"f", "i", "n", "d">>,
      <<"o", "r", "g", "a", "n", "i", "z", "e">>,
      <<"m", "o", "v", "e">>,
      <<"c", "o", "p", "y">>,
      <<"c", "r", "e", "a", "t", "e", " ", "f", "o", "l", "d", "e", "r">>,
      <<"s", "o", "r", "t">>,
      <<"r", "e", "n", "a", "m", "e">>,
      <<"d", "e", "l", "e", "t", "e">>,
      <<"r", "e", "m", "o", "v", "e">>,
      <<"l", "i", "s", "t">>,
      <<"c", "a", "t", "e", "g", "o", "r", "i", "z", "e">>,
      <<"w", "h", "a", "t">>,
      <<"w", "h", "i", "c", "h">>,
      <<"w", "h", "e", "r", "e">>,
      <<"h", "o", "w", " ", "m", "a", "n", "y">>,
      <<"d", "o", " ", "i", " ", "h", "a", "v", "e">>>>

file_types ==
    <<<<"f", "i", "l", "e", "s">>,
      <<"d", "o", "c", "u", "m", "e", "n", "t", "s">>,
      <<"m", "u", "s", "i", "c">>,
      <<"p", "h", "o", "t", "o", "s">>,
      <<"i", "m", "a", "g", "e", "s">>,
      <<"p", "d", "f">>,
      <<"m", "p", "3">>,
      <<"v", "i", "d", "e", "o", "s">>>>

\* transcription.lower().startswith("create") or ...startswith("make")
is_special(transcription) ==
    \/ startswith(lower(transcription), <<"c", "r", "e", "a", "t", "e">>)
    \/ startswith(lower(transcription), <<"m", "a", "k", "e">>)

\* is_complex of process_and_play_response: an indicator or a file type is
\* in transcription.lower()
is_complex(transcription) ==
    \/ \E k \in 1..Len(file_op_indicators) :
          Contains(lower(transcription), file_op_indicators[k])
    \/ \E k \in 1..Len(file_types) : Contains(lower(transcription), file_types[k])

\* the branch process_and_play_response takes
branch_of(transcription, use_multi_step) ==
    IF is_special(transcription) THEN "special"
    ELSE IF use_multi_step /\ is_complex(transcription) THEN "multi_step"
    ELSE "regular"

\* run_conversation: "COMPLEX" in complexity_response and "STEP" in
\* complexity_response, on the answer stripped and upper-cased
asks_for_reasoning(answer) ==
    LET complexity_response == upper(strip(answer))
    IN  Contains(complexity_response, <<"C", "O", "M", "P", "L", "E", "X">>) /\ Contains(complexity_response, <<"S", "T", "E", "P">>)

\* process_and_play_response after its first run_conversation returned or
\* raised: the result is the response, or in the multi-step branch the
\* chain it created is run if it has steps and run_conversation is called
\* again if not, or after an exception
after_run_conversation(chains, req, raised) ==
    IF req.branch = "multi_step"
    THEN IF raised THEN [req EXCEPT !.pc = "fallback"]
         ELSE IF req.chain_id \in DOMAIN chains /\ chains[req.chain_id].steps # <<>>
         THEN [req EXCEPT !.pc = "running"]
         ELSE [req EXCEPT !.pc = "fallback"]
    ELSE [req EXCEPT !.pc = IF raised THEN "raised" ELSE "done"]

\* what the user says
Transcriptions ==
    { <<"h", "i">>,
      <<"F", "i", "n", "d", " ", "a">>,
      <<"s", "o", "r", "t">>,
      <<"C", "r", "e", "a", "t", "e", " ", "f", "o", "l", "d", "e", "r">>,
      <<"m", "a", "k", "e", " ", "p", "d", "f">>,
      <<"m", "y", " ", "m", "u", "s", "i", "c">> }

\* what the model answers the complexity check with
ComplexityAnswers ==
    { <<"S", "I", "M", "P", "L", "E">>,
      <<"C", "O", "M", "P", "L", "E", "X">>,
      <<" ", "C", "o", "m", "p", "l", "e", "x", ":", " ", "s", "t", "e", "p", "s", "\n">>,
      <<"s", "i", "m", "p", "l", "e", " ", "s", "t", "e", "p", "s">> }

\* process_and_play_response(transcription, speech_end_time, config) called:
\* up to the complexity check of its first run_conversation
ProcessAndPlayResponse(transcription, use_multi_step) ==
    /\ request.pc = "idle"
    /\ LET branch == branch_of(transcription, use_multi_step)
           created == branch = "multi_step"
       IN  /\ active_chains' = IF created THEN create_chain(active_chains).chains
                               ELSE active_chains
           /\ request' = [pc |-> "complexity_check", branch |-> branch,
                          transcription |-> transcription, answer |-> <<>>,
                          chain_id |-> IF created THEN NewChainId(active_chains) ELSE 0,
                          route |-> IF created THEN "multi_step" ELSE ""]
    /\ call' = Call("process_and_play_response", request'.chain_id)
    /\ ret' = NoReturn
    /\ UNCHANGED <<contexts, run, now, hist, runs, verifier_vars, executor_vars,
                   conversation, executed, index_vars, dialogue_vars>>

\* the complexity check of run_conversation returns: run_reasoning_chain is
\* called and suspends in its planning call, or the chat completion of the
\* regular flow is awaited
ComplexityCheckReturns(answer) ==
    /\ request.pc = "complexity_check"
    /\ IF asks_for_reasoning(answer)
       THEN /\ request' = [request EXCEPT !.pc = "reasoning", !.answer = answer,
                                          !.route = "multi_step"]
            /\ conversation' = Waiting("planning", 0, 0)
       ELSE /\ request' = [request EXCEPT !.pc = "conversing", !.answer = answer,
                                          !.route = IF @ = "" THEN "single_shot" ELSE @]
            /\ UNCHANGED conversation
    /\ call' = Call("run_conversation", request.chain_id)
    /\ ret' = NoReturn
    /\ UNCHANGED <<active_chains, contexts, run, now, hist, runs, verifier_vars,
                   executor_vars, executed, index_vars, dialogue_vars>>

\* process_and_play_response goes on with what its run_conversation left
Proceeds(raised, text) ==
    /\ request' = after_run_conversation(active_chains, request, raised)
    /\ ret' = IF request'.pc = "done" THEN Response(text) ELSE NoReturn
    /\ call' = Call("process_and_play_response", request.chain_id)
    /\ UNCHANGED <<active_chains, contexts, run, now, hist, runs, verifier_vars,
                   executor_vars, conversation, executed, index_vars, dialogue_vars>>

\* the regular flow of run_conversation returns the model's answer
ConversationReturns ==
    /\ request.pc = "conversing"
    /\ Proceeds(FALSE, Text(ASSISTANT_RESPONSE))

\* run_reasoning_chain returned to run_conversation, and that to its caller
ReasoningReturns ==
    /\ request.pc = "reasoning"
    /\ conversation.pc = "returned"
    /\ Proceeds(FALSE, conversation.returned)

\* an exception leaves run_conversation: from its own model calls or tools,
\* or from run_reasoning_chain
ConversationRaises ==
    /\ \/ request.pc \in {"complexity_check", "conversing"}
       \/ request.pc = "reasoning" /\ conversation.pc = "raised"
    /\ Proceeds(TRUE, NoneResponse)

\* the second run_conversation of the multi-step branch returns or raises
FallbackConversationEnds ==
    /\ request.pc = "fallback"
    /\ \E raised \in BOOLEAN :
          /\ request' = [request EXCEPT !.pc = IF raised THEN "raised" ELSE "done"]
          /\ ret' = IF raised THEN NoReturn ELSE Response(Text(ASSISTANT_RESPONSE))
    /\ call' = Call("process_and_play_response", request.chain_id)
    /\ UNCHANGED <<active_chains, contexts, run, now, hist, runs, verifier_vars,
                   executor_vars, conversation, executed, index_vars, dialogue_vars>>

NextRequest ==
    \/ \E transcription \in Transcriptions, use_multi_step \in BOOLEAN :
          ProcessAndPlayResponse(transcription, use_multi_step)
    \/ \E answer \in ComplexityAnswers : ComplexityCheckReturns(answer)
    \/ ConversationReturns
    \/ ReasoningReturns
    \/ ConversationRaises
    \/ FallbackConversationEnds
    \/ PlanningReturnsPlan
    \/ PlanningReturnsText
    \/ ToolReturns
    \/ CompletionReturns
    \/ FallbackReturns
    \/ AwaitedRaises

SpecRequest == Init /\ [][NextRequest]_vars

-----------------------------------------------------------------------------
(* The context registry called directly, beside the engine's registry *)

\* the tools whose results are recorded in a context
RecordedTools == {"execute_commands", "synthesize"}

\* every entry of every context within the bounds of the model
WithinBounds(ctxs) ==
    \A c \in DOMAIN ctxs : \A k \in DOMAIN ctxs[c] :
        /\ ctxs[c][k].access_count <= MaxAccess
        /\ k = Key("command_history") => ctxs[c][k].value.len <= MaxHistory

\* context_manager.get_step_context(chain_id, step_id)
GetStepContext(chain_id, step_id) ==
    /\ contexts' = get_step_context(contexts, chain_id, step_id, now)
    /\ WithinBounds(contexts')
    /\ call' = Call("get_step_context", chain_id)
    /\ ret' = Ok("full_context", FALSE) @@
               [step_id |-> step_id,
                context |-> step_context(contexts'[chain_id], step_id)]
    /\ UNCHANGED <<active_chains, run, now, hist, runs, verifier_vars, executor_vars, orchestrator_vars, index_vars, dialogue_vars>>

\* context_manager.update_context_from_step_result(chain_id, step_result, step_info)
UpdateContextFromStepResult(chain_id, step_result, step_id, tool_name) ==
    /\ contexts' = update_context_from_step_result(contexts, chain_id, step_result,
                                                   step_id, tool_name, now)
    /\ WithinBounds(contexts')
    /\ call' = Call("update_context_from_step_result", chain_id)
    /\ ret' = Ok("None", FALSE)
    /\ UNCHANGED <<active_chains, run, now, hist, runs, verifier_vars, executor_vars, orchestrator_vars, index_vars, dialogue_vars>>

NextContext ==
    \/ /\ active_chains = <<>>
       /\ CreateChain
       /\ UNCHANGED <<hist, runs>>
    \/ \E chain_id \in CallerIds :
          \/ \E step_id \in 0..MaxSteps : GetStepContext(chain_id, step_id)
          \/ \E step_result \in StepResults, step_id \in 0..(MaxSteps - 1),
                tool_name \in RecordedTools :
                UpdateContextFromStepResult(chain_id, step_result, step_id, tool_name)

SpecContext == Init /\ [][NextContext]_vars

-----------------------------------------------------------------------------
(* One ReasoningContext called directly *)

\* the chain the context belongs to
TheContext == 1

\* a value a method returned
Returned(value) ==
    [kind |-> "value", error |-> "", has_next_step |-> FALSE, response |-> NoneResponse,
     value |-> value]
CallOn(op, key) == [op |-> op, chain_id |-> TheContext, key |-> key]

\* the keys the callers use: one the context starts with, one it does not
\* start with, and one that is never set
SetKeys == {Key("user_key")}
Keys == {Key("approved_directories"), Key("never_set")} \cup SetKeys
\* the values and sources they pass
Values == {Value("str"), Flag(TRUE)}
Sources == {"None", "user"}

\* ReasoningContext(chain_id)
InitEntries ==
    /\ active_chains = <<>>
    /\ contexts = get_context(<<>>, TheContext, 0)
    /\ run = Idle
    /\ call = Call("init", 0)
    /\ ret = NoReturn
    /\ now = 0
    /\ hist = <<>>
    /\ runs = 0
    /\ conversation = NoConversation
    /\ request = NoRequest
    /\ executed = <<>>
    /\ NoVerification
    /\ NoExecutions
    /\ NoIndex
    /\ NoDialogue
    /\ tool_args = NoToolArgs
    /\ approved_directories = <<>>

\* context.get(key)
Get(key) ==
    /\ key \in DOMAIN contexts[TheContext] =>
           contexts[TheContext][key].access_count < MaxReads
    /\ contexts' = [contexts EXCEPT ![TheContext] = get(@, key)]
    /\ ret' = Returned(IF key \in DOMAIN contexts[TheContext]
                       THEN contexts[TheContext][key].value ELSE Value("None"))
    /\ call' = CallOn("get", key)
    /\ UNCHANGED <<active_chains, run, now, hist, runs, verifier_vars, executor_vars, orchestrator_vars, index_vars, dialogue_vars>>

\* context.set(key, value, source)
Set(key, value, source) ==
    /\ contexts' = [contexts EXCEPT ![TheContext] = set(@, key, value, source, now)]
    /\ ret' = Returned(Value("None"))
    /\ call' = CallOn("set", key)
    /\ UNCHANGED <<active_chains, run, now, hist, runs, verifier_vars, executor_vars, orchestrator_vars, index_vars, dialogue_vars>>

\* context.update(key, value, source)
Update(key, value, source) ==
    /\ contexts' = [contexts EXCEPT ![TheContext] = update(@, key, value, source, now)]
    /\ ret' = Returned(Flag(key \in DOMAIN contexts[TheContext]))
    /\ call' = CallOn("update", key)
    /\ UNCHANGED <<active_chains, run, now, hist, runs, verifier_vars, executor_vars, orchestrator_vars, index_vars, dialogue_vars>>

\* time.time() moves on
Tick ==
    /\ now < MaxTime
    /\ now' = now + 1
    /\ call' = Call("time", 0)
    /\ UNCHANGED <<active_chains, contexts, run, ret, hist, runs, verifier_vars,
                   executor_vars, orchestrator_vars, index_vars, dialogue_vars>>

NextEntries ==
    \/ \E key \in Keys : Get(key)
    \/ \E key \in SetKeys, value \in Values : Set(key, value, "user")
    \/ \E key \in Keys, value \in Values, source \in Sources : Update(key, value, source)
    \/ Tick

SpecEntries == InitEntries /\ [][NextEntries]_vars

-----------------------------------------------------------------------------
(* The verifier applied to a command line *)

\* a command line is handed to the verifier
InitVerifier ==
    /\ NoRequests
    /\ NoExecutions
    /\ NoIndex
    /\ NoDialogue
    /\ tool_args = NoToolArgs
    /\ approved_directories = <<>>
    /\ command_line \in Commands
    /\ verdict = NoVerdict

\* CommandVerifier.is_dangerous(command)
IsDangerous ==
    /\ verdict = NoVerdict
    /\ verdict' = is_dangerous(command_line)
    /\ call' = Call("is_dangerous", 0)
    /\ UNCHANGED <<orchestrator_vars, index_vars, dialogue_vars>>
    /\ UNCHANGED <<active_chains, contexts, run, ret, now, hist, runs, command_line>>
    /\ UNCHANGED executor_vars

NextVerifier == IsDangerous

SpecVerifier == InitVerifier /\ [][NextVerifier]_vars

-----------------------------------------------------------------------------
(* The verifier applied to a file operation and a context *)

\* the arguments the file operations are given: inside an approved
\* directory, the directory itself, outside, under the home directory,
\* relative to the working directory (inside and climbing out of it), flags,
\* and a sibling whose name starts with the approved directory's
Arguments == {
    <<"/", "s", "r", "v", "/", "x">>, <<"/", "s", "r", "v">>,
    <<"/", "e", "t", "c", "/", "x">>, <<"/", "h", "/", "y">>,
    <<"x", "/", "y">>, <<".", ".", "/", ".", ".", "/", "e", "t", "c", "/", "x">>,
    <<"-", "p">>, <<"/", "s", "r", "v", "x">>,
    <<"-", "f", "/", "e", "t", "c", "/", "x">> }

RECURSIVE WithArguments(_, _)
\* the command lines of a verb followed by exactly n arguments
WithArguments(verb, n) ==
    IF n = 0 THEN {verb}
    ELSE { c \o <<" ">> \o a : c \in WithArguments(verb, n - 1), a \in Arguments }

\* the file operations handed to verify_command_with_context
FileCommands ==
    UNION { WithArguments(verb, n) : verb \in FILE_OPERATIONS, n \in 1..MaxPaths }

\* a file operation and a context are handed to the verifier
InitVerify ==
    /\ NoRequests
    /\ NoExecutions
    /\ NoIndex
    /\ NoDialogue
    /\ tool_args = NoToolArgs
    /\ approved_directories \in ApprovedLists
    /\ command_line \in FileCommands
    /\ verdict = NoVerdict

\* CommandVerifier.verify_command_with_context(command, context)
VerifyCommandWithContext ==
    /\ verdict = NoVerdict
    /\ LET v == verify_command_with_context(command_line, approved_directories)
       IN  /\ verdict' = Verdict(~v.is_safe, v.reason)
           /\ approved_directories' = v.approved_directories
    /\ call' = Call("verify_command_with_context", 0)
    /\ UNCHANGED <<orchestrator_vars, index_vars, dialogue_vars, tool_args>>
    /\ UNCHANGED <<active_chains, contexts, run, ret, now, hist, runs, command_line,
                   command_history, unsafe_attempt_count, procs, last_result, launched,
                   requested, batch>>

NextVerify == VerifyCommandWithContext

SpecVerify == InitVerify /\ [][NextVerify]_vars

-----------------------------------------------------------------------------
(* The executor called with single commands *)

InitExecutor ==
    /\ NoRequests
    /\ NoVerification
    /\ NoExecutions
    /\ NoIndex
    /\ NoDialogue
    /\ tool_args = NoToolArgs
    /\ approved_directories \in ApprovedLists

\* execute_command(command, context) or execute_background_command(command,
\* context) called: to its return (rejected) or to its subprocess call
Execute(cmd, background) ==
    /\ requested < MaxRequests
    /\ requested' = requested + 1
    /\ LET h == execute_head(command_history, unsafe_attempt_count, cmd, background,
                             approved_directories)
       IN  /\ command_history' = h.command_history
           /\ unsafe_attempt_count' = h.unsafe_attempt_count
           /\ approved_directories' = h.approved_directories
           /\ IF h.launches
              THEN /\ procs' = procs @@ (requested + 1 :>
                                  Process(cmd, background, approved_directories, "launch"))
                   /\ UNCHANGED last_result
              ELSE /\ last_result' = h.result
                   /\ UNCHANGED procs
    /\ command_line' = cmd
    /\ verdict' = LET v == verify_command_with_context(cmd, approved_directories)
                  IN  Verdict(~v.is_safe, v.reason)
    /\ call' = Call(IF background THEN "execute_background_command" ELSE "execute_command", 0)
    /\ UNCHANGED <<orchestrator_vars, index_vars, dialogue_vars, tool_args>>
    /\ UNCHANGED <<launched, batch, active_chains, contexts, run, ret, now, hist, runs>>

\* procs without the execution id
Without(id) == [i \in DOMAIN procs \ {id} |-> procs[i]]

\* asyncio.create_subprocess_shell(command): the process starts, or the call raises
Launch(id) ==
    /\ id \in DOMAIN procs
    /\ procs[id].pc = "launch"
    /\ \/ /\ launched' = Append(launched, procs[id])
          /\ IF procs[id].background
             THEN /\ last_result' = started_result(procs[id].command)
                  /\ procs' = Without(id)
             ELSE /\ procs' = [procs EXCEPT ![id].pc = "communicate"]
                  /\ UNCHANGED last_result
       \/ /\ last_result' = exception_result(procs[id].command, procs[id].background)
          /\ procs' = Without(id)
          /\ UNCHANGED launched
    /\ call' = Call("create_subprocess_shell", id)
    /\ UNCHANGED <<orchestrator_vars, index_vars, dialogue_vars, tool_args>>
    /\ UNCHANGED <<command_history, unsafe_attempt_count, requested, approved_directories,
                   batch, command_line, verdict, active_chains, contexts, run, ret, now,
                   hist, runs>>

\* execute_command resumed from process.communicate(): with what the
\* subprocess wrote (returned), or with the exception of the call
Resumed(id, returned, out) ==
    /\ id \in DOMAIN procs
    /\ procs[id].pc = "communicate"
    /\ last_result' = IF returned THEN process_result(procs[id].command, out)
                      ELSE exception_result(procs[id].command, FALSE)
    /\ procs' = Without(id)

\* process.communicate() returns, or raises
Communicate(id) ==
    /\ \E returned \in BOOLEAN, out \in Outputs : Resumed(id, returned, out)
    /\ call' = Call("communicate", id)
    /\ UNCHANGED <<orchestrator_vars, index_vars, dialogue_vars, tool_args>>
    /\ UNCHANGED <<command_history, unsafe_attempt_count, requested, approved_directories,
                   launched, batch, command_line, verdict, active_chains, contexts, run,
                   ret, now, hist, runs>>

NextExecutor ==
    \/ \E cmd \in ExecutorCommands : Execute(cmd, FALSE)
    \/ \E cmd \in ExecutorCommands : Execute(cmd, TRUE)
    \/ \E id \in 1..MaxRequests : Launch(id)
    \/ \E id \in 1..MaxRequests : Communicate(id)

SpecExecutor == InitExecutor /\ [][NextExecutor]_vars

-----------------------------------------------------------------------------
(* The executor called with a batch of commands *)

\* the number of execute_command calls the batch has made
Calls(b) == Cardinality({k \in 1..Len(b.trace) : b.trace[k][1] = "call"})

\* the executor's fields, the context's list and the batch become those of e
Becomes(e) ==
    /\ command_history' = e.command_history
    /\ unsafe_attempt_count' = e.unsafe_attempt_count
    /\ approved_directories' = e.approved_directories
    /\ batch' = e.batch
    /\ requested' = requested + Calls(e.batch) - Calls(batch)

\* the batch goes on from where its current execute_command left it
Continue(b) ==
    Becomes(execute_commands(command_history, unsafe_attempt_count, approved_directories, b))

\* execute_commands(commands, context) called: to the first subprocess call
\* of one of its commands, or to its return
ExecuteCommands(commands) ==
    /\ batch.pc = "idle"
    /\ Continue([NoBatch EXCEPT !.commands = commands])
    /\ call' = Call("execute_commands", 0)
    /\ UNCHANGED <<orchestrator_vars, index_vars, dialogue_vars, tool_args>>
    /\ UNCHANGED <<procs, last_result, launched, command_line, verdict, active_chains,
                   contexts, run, ret, now, hist, runs>>

\* the current command's asyncio.create_subprocess_shell: the process
\* starts, or the call raises and the loop goes on
BatchLaunch ==
    /\ batch.pc = "launch"
    /\ LET cmd == batch.commands[Current(batch)]
       IN  \/ /\ launched' = Append(launched, Process(cmd, FALSE, approved_directories,
                                                      "communicate"))
              /\ batch' = [batch EXCEPT !.pc = "communicate"]
              /\ UNCHANGED <<command_history, unsafe_attempt_count, approved_directories,
                             requested>>
           \/ /\ Continue(collect(batch, exception_result(cmd, FALSE)))
              /\ UNCHANGED launched
    /\ call' = Call("create_subprocess_shell", 0)
    /\ UNCHANGED <<orchestrator_vars, index_vars, dialogue_vars, tool_args>>
    /\ UNCHANGED <<procs, last_result, command_line, verdict, active_chains, contexts, run,
                   ret, now, hist, runs>>

\* the current command's process.communicate() returns, or raises; the loop
\* goes on
BatchCommunicate ==
    /\ batch.pc = "communicate"
    /\ LET cmd == batch.commands[Current(batch)]
       IN  \/ \E out \in Outputs : Continue(collect(batch, process_result(cmd, out)))
           \/ Continue(collect(batch, exception_result(cmd, FALSE)))
    /\ call' = Call("communicate", 0)
    /\ UNCHANGED <<orchestrator_vars, index_vars, dialogue_vars, tool_args>>
    /\ UNCHANGED <<procs, last_result, launched, command_line, verdict, active_chains,
                   contexts, run, ret, now, hist, runs>>

NextBatch ==
    \/ \E n \in 0..MaxBatch : \E commands \in Batches(n) : ExecuteCommands(commands)
    \/ BatchLaunch
    \/ BatchCommunicate

SpecBatch == InitExecutor /\ [][NextBatch]_vars

-----------------------------------------------------------------------------
(* The registry under create_chain with the identifier it draws *)

\* the values of uuid.uuid4().hex[:8]: always one more than the registry
\* is let to hold
Uuids == 1..(MaxChains + 1)

\* ReasoningEngine.create_chain when uuid4 yields chain_id:
\* self.active_chains[chain_id] = ReasoningChain(query)
create_chain_as(chains, chain_id) ==
    Outcome([c \in DOMAIN chains \cup {chain_id} |->
                IF c = chain_id THEN ReasoningChain ELSE chains[c]],
            Ok("chain_id", FALSE))

\* reasoning_engine.create_chain(query); the identifier is any value of
\* the generator, taken or not
CreateChainAs(chain_id) ==
    /\ chain_id \in DOMAIN active_chains \/ Cardinality(DOMAIN active_chains) < MaxChains
    /\ LET o == create_chain_as(active_chains, chain_id)
       IN  /\ active_chains' = o.chains
           /\ ret' = o.ret
    /\ call' = Call("create_chain", chain_id)
    /\ UNCHANGED <<contexts, run, now, verifier_vars, executor_vars, orchestrator_vars, index_vars, dialogue_vars>>

NextRegistry ==
    \E chain_id \in Uuids :
       \/ CreateChainAs(chain_id) /\ UNCHANGED <<hist, runs>>
       \/ Plan(chain_id) /\ UNCHANGED <<hist, runs>>
       \/ ExecuteStep(chain_id) /\ UNCHANGED <<hist, runs>>
       \/ CompleteChain(chain_id) /\ UNCHANGED <<hist, runs>>

SpecRegistry == Init /\ [][NextRegistry]_vars

-----------------------------------------------------------------------------
(* Claims about the engine and the orchestrator *)

Chains == DOMAIN active_chains

\* C1: on a chain that was created, planned with N >= 1 steps and then only
\* handed to execute_step, after k <= N calls the cursor is k and
\* is_completed holds exactly when k = N; a call after the Nth returns the
\* "No current step" error and leaves the chain as it was.
C1_ExecuteStepWalksThePlan ==
    [][\A c \in DOMAIN active_chains' :
          (hist'[c].pure /\ Len(active_chains'[c].steps) >= 1) =>
             LET chain == active_chains'[c]
                 N == Len(chain.steps)
                 k == hist'[c].execs
             IN  /\ k <= N => chain.current_step_idx = k /\ (chain.is_completed <=> k = N)
                 /\ k > N => /\ chain.current_step_idx = N
                             /\ chain.is_completed
                 /\ (c \in Chains /\ call' = Call("execute_step", c) /\ hist[c].execs >= N) =>
                        /\ ret' = Error("No current step")
                        /\ chain = active_chains[c]
      ]_vars

\* C1 witness: two planned steps, two execute_step calls and one more, refused
C1_Witness ==
    \E c \in Chains :
        /\ hist[c].pure /\ Len(active_chains[c].steps) = 2 /\ hist[c].execs = 3
        /\ active_chains[c].current_step_idx = 2 /\ active_chains[c].is_completed
        /\ call = Call("execute_step", c) /\ ret = Error("No current step")

\* C2: in every reachable state the cursor of every chain lies within
\* 0 .. len(steps).
C2_CursorWithinSteps ==
    \A c \in Chains :
        /\ 0 <= active_chains[c].current_step_idx
        /\ active_chains[c].current_step_idx <= Len(active_chains[c].steps)

\* C2 witness: an orchestrator run has returned with the cursor at the end
\* of a two-step chain
C2_Witness ==
    \E c \in Chains :
        /\ call = Call("run_reasoning_chain", c) /\ ret.kind = "response"
        /\ Len(active_chains[c].steps) = 2
        /\ active_chains[c].current_step_idx = Len(active_chains[c].steps)

\* C3: a completed chain has its cursor at len(steps) or was completed by an
\* explicit complete_chain call.
C3_CompletedMeansAllStepsOrExplicit ==
    \A c \in Chains :
        active_chains[c].is_completed =>
            \/ active_chains[c].current_step_idx = Len(active_chains[c].steps)
            \/ hist[c].explicit

\* C4: no transition lowers the cursor of a chain.
C4_CursorNeverDecreases ==
    [][\A c \in Chains :
          active_chains'[c].current_step_idx >= active_chains[c].current_step_idx]_vars

\* C5 as stated: after an empty plan, once execute_step has been called the
\* chain is completed.
C5_EmptyPlanCompletesOnExecuteStep ==
    \A c \in Chains :
        (hist[c].pure /\ hist[c].planned /\ Len(active_chains[c].steps) = 0 /\ hist[c].execs >= 1)
            => active_chains[c].is_completed

\* C5 amended: execute_step on a chain of zero steps returns the "No current
\* step" error and leaves the chain as it was; a chain that was only planned
\* with zero steps and handed to execute_step stays not completed.
C5_EmptyPlanExecuteStepIsAnError ==
    [][\A c \in Chains :
          /\ (call' = Call("execute_step", c) /\ Len(active_chains[c].steps) = 0) =>
                /\ ret' = Error("No current step")
                /\ active_chains'[c] = active_chains[c]
          /\ (hist'[c].pure /\ Len(active_chains'[c].steps) = 0) =>
                ~active_chains'[c].is_completed
      ]_vars

\* C5 witness: an empty plan, then execute_step refused on the empty chain
C5_Witness ==
    \E c \in Chains :
        /\ hist[c].pure /\ hist[c].planned /\ hist[c].execs >= 1
        /\ Len(active_chains[c].steps) = 0
        /\ call = Call("execute_step", c) /\ ret = Error("No current step")
        /\ ~active_chains[c].is_completed

\* C6: plan, execute_step and complete_chain (directly or through
\* handle_request) addressed to an id that is not registered return the
\* "Chain not found" error and leave the registry as it was.
C6_UnknownChainIsAnError ==
    [][(/\ call'.op \in {"plan", "execute_step", "complete_chain"}
        /\ call'.chain_id \notin Chains) =>
           /\ ret' = Error("Chain not found")
           /\ active_chains' = active_chains
      ]_vars

\* C6 witness: complete_chain on an unknown id was refused while a chain with
\* steps is registered
C6_Witness ==
    /\ call.op = "complete_chain" /\ call.chain_id \notin Chains
    /\ ret = Error("Chain not found")
    /\ \E c \in Chains : Len(active_chains[c].steps) > 0

-----------------------------------------------------------------------------
(* Claims about the context registry *)

\* C7: get_step_context and update_context_from_step_result called with an
\* id that has neither a context nor a chain return an error and create no
\* context.
C7_UnknownChainGetsNoContext ==
    [][(/\ call'.op \in {"get_step_context", "update_context_from_step_result"}
        /\ call'.chain_id \notin DOMAIN contexts
        /\ call'.chain_id \notin DOMAIN active_chains) =>
           /\ ret'.kind = "error"
           /\ contexts' = contexts
      ]_vars

-----------------------------------------------------------------------------
(* Claims about the executor *)

\* C8: an execution whose command verification rejects returns
\* success = false with the reason, appends nothing to command_history,
\* adds one to unsafe_attempt_count and starts no subprocess; an accepted
\* command is appended to command_history once, before its subprocess
\* starts, with the counter unchanged; every subprocess started is of a
\* command that verification accepts, and len(command_history) +
\* unsafe_attempt_count is the number of executions requested.
C8_RejectedCommandNeverRuns ==
    [][/\ call'.op \in {"execute_command", "execute_background_command"} =>
            LET v == verify_command_with_context(command_line', approved_directories)
                entry == history_entry(command_line', call'.op = "execute_background_command")
            IN  IF ~v.is_safe
                THEN /\ ~last_result'.success
                     /\ last_result'.command = command_line'
                     /\ last_result'.error = UnsafeCommandRejected(v.reason)
                     /\ command_history' = command_history
                     /\ unsafe_attempt_count' = unsafe_attempt_count + 1
                     /\ launched' = launched
                     /\ procs' = procs
                ELSE /\ command_history' = Append(command_history, entry)
                     /\ unsafe_attempt_count' = unsafe_attempt_count
                     /\ launched' = launched
       /\ launched' # launched =>
            LET p == launched'[Len(launched')]
            IN  /\ \E k \in 1..Len(command_history) :
                      command_history[k] = history_entry(p.command, p.background)
                /\ command_history' = command_history
                /\ unsafe_attempt_count' = unsafe_attempt_count
       /\ \A k \in 1..Len(launched') :
            verify_command_with_context(launched'[k].command,
                                        launched'[k].approved_directories).is_safe
       /\ Len(command_history') + unsafe_attempt_count' = requested'
      ]_vars

\* C8 witness: one command was accepted, logged and started, another was
\* rejected and counted
C8_Witness ==
    /\ requested = 2
    /\ Len(command_history) = 1
    /\ Len(launched) = 1
    /\ unsafe_attempt_count = 1
    /\ last_result.error.kind = "Unsafe command rejected"
    /\ ~last_result.success

-----------------------------------------------------------------------------
(* Claims about the verifier *)

\* the dangerous patterns the command line matches
Matching == {n \in 1..Len(DANGEROUS_PATTERNS) : search(n, command_line)}

\* C9: a command that matches at least one dangerous pattern is judged
\* dangerous, with the reason naming the first pattern of the list that
\* matches, whatever its base command is.
C9_PatternMatchIsDangerous ==
    (call.op = "is_dangerous" /\ Matching # {}) =>
        LET first == CHOOSE n \in Matching : \A m \in Matching : n <= m
        IN  /\ verdict.is_dangerous
            /\ verdict.reason.msg = "Command matches dangerous pattern"
            /\ verdict.reason.pattern = DANGEROUS_PATTERNS[first]

\* C9 witness: an essential base command, a redirection onto a system file
\* (the fifth pattern, no earlier one) and the verdict "dangerous"
C9_Witness ==
    /\ call.op = "is_dangerous"
    /\ base_command(command_line) \in ESSENTIAL_COMMANDS
    /\ Matching = {5}
    /\ verdict.is_dangerous

\* C10: a command whose base command is mkdir, mv or cp and that matches no
\* dangerous pattern is judged not dangerous, with an empty reason,
\* whatever else is on the command line.
C10_EssentialCommandIsAllowed ==
    (/\ call.op = "is_dangerous"
     /\ base_command(command_line) \in ESSENTIAL_COMMANDS
     /\ Matching = {}) =>
        verdict = Verdict(FALSE, NoReason)

\* C10 witness: mkdir with a redirection into /etc/ was let through
C10_Witness ==
    /\ call.op = "is_dangerous"
    /\ base_command(command_line) = <<"m", "k", "d", "i", "r">>
    /\ Matching = {}
    /\ Contains(command_line, <<">">>)
    /\ Contains(command_line, <<"/", "e", "t", "c", "/">>)
    /\ ~verdict.is_dangerous

\* the path arguments of the command line: the words after the verb that
\* hold a "/" and are no flag, relative ones made absolute
PathArguments ==
    LET paths == paths_of(shlex_split(command_line).words)
    IN  { IF StartsWithAt(paths[k], 1, <<"/">>) THEN paths[k] ELSE abspath(paths[k])
          : k \in 1..Len(paths) }

\* path is an approved directory or the home directory, or lies under one
Nested(path) ==
    \/ is_approved(path, approved_directories)
    \/ path = HOME_DIR
    \/ StartsWithAt(path, 1, HOME_DIR \o <<"/">>)

\* path lies under an approved directory
Descendant(path) ==
    \E k \in 1..Len(approved_directories) :
        StartsWithAt(path, 1, approved_directories[k] \o <<"/">>)

\* C11: for a command whose verb is cp, mv, rm, mkdir or touch,
\* verify_command_with_context rejects it with a reason citing the path when
\* a path argument is neither an approved directory, nor the home directory,
\* nor nested under one of them, and accepts it when every path argument is
\* a descendant of an approved directory.
C11_PathsDecideFileOperations ==
    (/\ call.op = "verify_command_with_context"
     /\ base_command(command_line) \in FILE_OPERATIONS) =>
        /\ (\E p \in PathArguments : ~Nested(p)) =>
              /\ verdict.is_dangerous
              /\ \E p \in PathArguments : ~Nested(p) /\ verdict.reason = Unapproved(p)
        /\ (PathArguments # {} /\ \A p \in PathArguments : Descendant(p)) =>
              ~verdict.is_dangerous

-----------------------------------------------------------------------------
(* Claims about one context *)

\* C13: get(key) on a present key returns the entry's value, adds exactly
\* one to its access_count and changes nothing else, so consecutive get
\* calls on a key return the same value; update on an absent key returns
\* false and leaves every entry of the context as it was.
C13_GetRepeatsUpdateRefuses ==
    [][LET entries == contexts[TheContext]
       IN  /\ (call'.op = "get" /\ call'.key \in DOMAIN entries) =>
                 /\ ret' = Returned(entries[call'.key].value)
                 /\ contexts'[TheContext] =
                       [entries EXCEPT ![call'.key].access_count = @ + 1]
                 /\ (call.op = "get" /\ call.key = call'.key) => ret' = ret
           /\ (call'.op = "update" /\ call'.key \notin DOMAIN entries) =>
                 /\ ret' = Returned(Flag(FALSE))
                 /\ contexts' = contexts
      ]_vars

\* C13 witness: an entry was read twice after the clock moved, the second
\* read returned its value, and a key that was never set is still absent
C13_Witness ==
    /\ call = CallOn("get", Key("approved_directories"))
    /\ contexts[TheContext][Key("approved_directories")].access_count = 2
    /\ ret = Returned(contexts[TheContext][Key("approved_directories")].value)
    /\ Key("user_key") \notin DOMAIN contexts[TheContext]
    /\ now = 1

-----------------------------------------------------------------------------
(* Claims about the batch *)

\* C12: execute_commands handles its commands in list order, one at a time:
\* the calls and returns of execute_command alternate, call i, return i,
\* call i+1, ..., and a subprocess is started only for the command whose
\* call is pending, after all earlier commands have returned; the batch
\* returns only when every command has been handled, whatever failed or was
\* rejected; individual_results then has one entry per command in input
\* order and success is the conjunction of the individual successes.
C12_BatchInOrder ==
    [][LET b == batch'
           n == Len(b.individual_results)
       IN  /\ \A k \in 1..Len(b.trace) :
                 b.trace[k] = <<IF k % 2 = 1 THEN "call" ELSE "return", (k + 1) \div 2>>
           /\ launched' # launched =>
                 /\ b.trace[Len(b.trace)] = <<"call", n + 1>>
                 /\ launched'[Len(launched')].command = b.commands[n + 1]
                 /\ batch.pc = "launch"
           /\ b.pc \in {"launch", "communicate"} => n < Len(b.commands)
           /\ b.pc = "done" =>
                 /\ n = Len(b.commands)
                 /\ \A i \in 1..n : b.individual_results[i].command = b.commands[i]
                 /\ b.success <=> \A i \in 1..n : b.individual_results[i].success
      ]_vars

\* C12 witness: a batch of two returned; its first command was rejected, its
\* second ran and succeeded, and the aggregate success is false
C12_Witness ==
    /\ batch.pc = "done"
    /\ Len(batch.commands) = 2
    /\ Len(batch.individual_results) = 2
    /\ batch.individual_results[1].error.kind = "Unsafe command rejected"
    /\ batch.individual_results[2].success
    /\ Len(launched) = 1
    /\ ~batch.success

-----------------------------------------------------------------------------
(* Claims about the orchestrators *)

\* what orchestrator by did on chain c, without the raises: the steps it
\* started and the results it recorded, in the order it did
StepsOf(trace, by, c) ==
    SelectSeq(trace, LAMBDA e : e.by = by /\ e.chain_id = c /\ e.event # "raise")

\* C14: in every orchestrator, when the execution of a step raises, a
\* failure result is recorded on that step next, and the orchestrator goes
\* on with the chain instead of leaving it.
C14_RaisedStepBecomesFailure ==
    \A k \in 1..Len(executed) :
        (executed[k].event = "raise" /\ executed[k].step_id >= 0) =>
            /\ k < Len(executed)
            /\ executed[k + 1] = [executed[k] EXCEPT !.event = "record"]
            /\ LET step == active_chains[executed[k].chain_id].steps[executed[k].step_id + 1]
               IN  step.is_completed /\ step.result.kind = "dict"
            /\ ~(conversation.pc = "raised" /\ conversation.raised_in = "tool")

\* C15: within one run of an orchestrator on a chain, the steps are started
\* in index order from the first, each start is followed by the recording
\* of that step's result before the next step starts, and when the run is
\* through with the steps every step of the chain has been started once.
C15_StepsInOrder ==
    [][/\ \A by \in 0..MaxRuns, c \in DOMAIN active_chains' :
             LET ev == StepsOf(executed', by, c)
             IN  \A k \in 1..Len(ev) :
                    /\ ev[k].step_id = (k - 1) \div 2
                    /\ ev[k].event = IF k % 2 = 1 THEN "start" ELSE "record"
                    /\ ev[k].event = "record" =>
                          active_chains'[c].steps[ev[k].step_id + 1].is_completed
       /\ conversation'.pc \in {"completing", "returned"} =>
             LET c == conversation'.chain_id
             IN  Len(StepsOf(executed', 0, c)) = 2 * Len(active_chains'[c].steps)
       /\ (call'.op = "run_reasoning_chain" /\ ret'.kind = "response") =>
             LET c == call'.chain_id
             IN  Len(StepsOf(executed', runs', c)) = 2 * Len(active_chains'[c].steps)
      ]_vars

\* C15 witness: the coroutine of openai_response.py is through with a plan
\* of two steps, the second of which it had to wait for
C15_Witness ==
    /\ conversation.pc = "returned"
    /\ conversation.chain_id \in Chains
    /\ Len(active_chains[conversation.chain_id].steps) = 2
    /\ Len(StepsOf(executed, 0, conversation.chain_id)) = 4
    /\ call = Call("conversation", conversation.chain_id)

\* C16: when the planning call yields a plan of zero steps, or no plan, the
\* query goes to run_conversation, whose answer is returned; nothing is
\* executed on the empty chain and no error leaves the orchestrator but one
\* of run_conversation itself.
C16_EmptyPlanFallsBack ==
    (/\ conversation.pc \notin {"idle", "planning"}
     /\ conversation.chain_id \in Chains
     /\ Len(active_chains[conversation.chain_id].steps) = 0) =>
        /\ \/ conversation.pc = "fallback"
           \/ conversation.pc = "returned" /\ conversation.returned = Text(ASSISTANT_RESPONSE)
           \/ conversation.pc = "raised" /\ conversation.raised_in = "fallback"
        /\ \A k \in 1..Len(executed) : executed[k].chain_id # conversation.chain_id

\* C17: the text an orchestrator returns for a chain with steps is the
\* chain's final_response, and every step of the chain is completed by then.
C17_ReturnsFinalResponse ==
    /\ (/\ conversation.pc = "returned"
        /\ Len(active_chains[conversation.chain_id].steps) > 0) =>
           LET chain == active_chains[conversation.chain_id]
           IN  /\ conversation.returned = chain.final_response
               /\ \A i \in 1..Len(chain.steps) : chain.steps[i].is_completed
    /\ (call.op = "run_reasoning_chain" /\ ret.kind = "response") =>
           LET chain == active_chains[call.chain_id]
           IN  /\ ret.response = chain.final_response
               /\ \A i \in 1..Len(chain.steps) : chain.steps[i].is_completed

C19_UnknownToolIsAFailure ==
    \A c \in Chains : \A i \in 1..Len(active_chains[c].steps) :
        LET step == active_chains[c].steps[i]
        IN  (/\ step.tool_name \notin {"none", "synthesize", "execute_commands", "search_files"}
             /\ step.is_completed) =>
                step.result = ResultDict(FALSE, "Unknown tool")

-----------------------------------------------------------------------------
(* Claims about the result of a command *)

\* C20: a command that was verified, ran and exited with a status other
\* than zero is reported with success = false and an error, whatever it
\* wrote to stdout and stderr.
C20_NonZeroExitIsFailure ==
    (/\ call.op = "communicate"
     /\ last_result.return_code > 0) =>
        /\ ~last_result.success
        /\ last_result.error # NoError

-----------------------------------------------------------------------------
(* Claims about what is written once *)

\* C21: once the final_response of a chain is not None, no operation (a
\* second complete_chain, a run of the orchestrator on the chain) changes it.
C21_FinalResponseSetOnce ==
    [][\A c \in Chains :
          active_chains[c].final_response # NoneResponse =>
             active_chains'[c].final_response = active_chains[c].final_response]_vars

\* C22: the result of a step is assigned once: is_completed turns true
\* together with the assignment, and a completed step keeps its result and
\* its is_completed under every operation of the engine and every run of
\* the orchestrator.
C22_StepResultSetOnce ==
    [][\A c \in Chains : \A i \in 1..Len(active_chains[c].steps) :
          LET step == active_chains[c].steps[i]
              after == active_chains'[c].steps[i]
          IN  /\ step.is_completed => after = step
              /\ ~step.is_completed => (after.result # step.result => after.is_completed)
      ]_vars

-----------------------------------------------------------------------------
(* Claims about the registry *)

\* C23: create_chain returns an identifier that names no chain at the time
\* of the call, registers under it a chain with no steps, cursor 0, not
\* completed and no final_response, and leaves every other chain as it
\* was: each creation adds one chain to the registry.
C23_CreateChainIsFresh ==
    [][call'.op = "create_chain" =>
          /\ call'.chain_id \notin DOMAIN active_chains
          /\ active_chains'[call'.chain_id] = ReasoningChain
          /\ \A c \in DOMAIN active_chains : active_chains'[c] = active_chains[c]
          /\ Cardinality(DOMAIN active_chains') = Cardinality(DOMAIN active_chains) + 1
      ]_vars

-----------------------------------------------------------------------------
(* Claims about the routing of a request *)

\* C24: in the multi-step path the steps the planning call produced are in
\* the chain process_and_play_response created for the request: a chain
\* that has steps is that chain.
C24_PlanIsInTheRequestsChain ==
    request.branch = "multi_step" =>
        \A c \in Chains : Len(active_chains[c].steps) > 0 => c = request.chain_id

\* the classifier's answer labels the request as one of several steps
LabelledComplex(answer) == Contains(upper(strip(answer)), <<"C", "O", "M", "P", "L", "E", "X">>)

\* C27: once the complexity check has answered, the request is on the
\* multi-step path exactly if it contains an indicator (or a file-type
\* word) or the answer labels it complex, whatever it begins with.
C27_RoutedByIndicatorOrClassifier ==
    request.answer # <<>> =>
        (request.route = "multi_step" <=>
            (is_complex(request.transcription) \/ LabelledComplex(request.answer)))

-----------------------------------------------------------------------------
(* Claims about the step results in the context *)

\* C25: every result an orchestrator recorded on a step, also after the
\* step's execution raised, is in the context of the chain under
\* step_result_<step_id>, equal to the result the step carries.
C25_ResultInChainAndContext ==
    \A k \in 1..Len(executed) :
        executed[k].event = "record" =>
            LET c == executed[k].chain_id
                key == StepResultKey(executed[k].step_id)
            IN  /\ c \in DOMAIN contexts
                /\ key \in DOMAIN contexts[c]
                /\ contexts[c][key].value = active_chains[c].steps[executed[k].step_id + 1].result

-----------------------------------------------------------------------------
(* File search: the index snapshots and the vector-store configuration      *)

\* files counted on one vector store
MaxFiles == 2

\* os.path.abspath(path): normpath of the path, joined to the working
\* directory unless it is absolute
os_path_abspath(path) ==
    LET full == IF StartsWithAt(path, 1, <<"/">>) THEN path ELSE CWD \o <<"/">> \o path
        kept == collapse(components(full, 1, <<>>), 1, <<>>)
    IN  IF kept = <<>> THEN <<"/">> ELSE join(kept, 1)

\* the directory arguments of the commands: relative, absolute, with a
\* trailing separator
Directories == { <<"a">>, <<"/", "h", "/", "w", "/", "a">>, <<"/", "s", "r", "v", "/">> }
\* args.vector_store or "default"
StoreNames == {"default", "docs"}

\* the entry create_vector_store makes; its id is the store's own
NewStore == [file_counts |-> 0, directories |-> <<>>]

\* FileSearchManager.create_vector_store(name)
create_vector_store(stores, name) ==
    [n \in DOMAIN stores \cup {name} |-> IF n = name THEN NewStore ELSE stores[n]]

\* FileSearchManager.add_file_to_vector_store(vector_store_id, file_id)
add_file_to_vector_store(stores, name) ==
    [stores EXCEPT ![name].file_counts = @ + 1]

\* "Update vector store info" of FileSearchManager.index_directory
list_directory(stores, name, directory_path) ==
    IF \E k \in 1..Len(stores[name].directories) :
           stores[name].directories[k] = directory_path
    THEN stores
    ELSE [stores EXCEPT ![name].directories = Append(@, directory_path)]

\* DirectoryIndexer.save_index: nothing is written for an empty index
save_index(file, indexed) == IF indexed = {} THEN file ELSE indexed

\* {"success": success} of remove and clear
Success(success) == IF success THEN Ok("success", FALSE) ELSE Error("not successful")

\* FileSearchCommands.index(args): isdir is os.path.isdir(directory),
\* uploaded whether create_file got its file to the API
Index(directory, vector_store, isdir, uploaded) ==
    /\ vector_store \in DOMAIN vector_stores =>
           vector_stores[vector_store].file_counts < MaxFiles
    /\ IF ~isdir
       THEN /\ ret' = Error("Directory not found")
            /\ UNCHANGED <<index_vars, dialogue_vars>>
       ELSE LET indexed == indexed_directories \cup {os_path_abspath(directory)}
                created == IF vector_store \in DOMAIN vector_stores THEN vector_stores
                           ELSE create_vector_store(vector_stores, vector_store)
                listed == list_directory(add_file_to_vector_store(created, vector_store),
                                         vector_store, directory)
            IN  /\ indexed_directories' = indexed
                /\ index_file' = save_index(index_file, indexed)
                /\ IF uploaded
                   THEN /\ vector_stores' = listed
                        /\ config_file' = listed
                        /\ ret' = Ok("success", FALSE)
                   ELSE /\ vector_stores' = created
                        /\ config_file' = IF created = vector_stores THEN config_file
                                          ELSE created
                        /\ ret' = Error("Failed to create file")
    /\ call' = Call("index", 0)
    /\ UNCHANGED <<active_chains, contexts, run, now, hist, runs, verifier_vars,
                   executor_vars, orchestrator_vars, dialogue_vars>>

\* FileSearchCommands.remove(args)
Remove(directory) ==
    /\ LET path == os_path_abspath(directory)
       IN  IF path \in indexed_directories
           THEN /\ indexed_directories' = indexed_directories \ {path}
                /\ index_file' = save_index(index_file, indexed_directories \ {path})
                /\ ret' = Success(TRUE)
           ELSE /\ ret' = Success(FALSE)
                /\ UNCHANGED <<indexed_directories, index_file>>
    /\ call' = Call("remove", 0)
    /\ UNCHANGED <<vector_stores, config_file>>
    /\ UNCHANGED <<active_chains, contexts, run, now, hist, runs, verifier_vars,
                   executor_vars, orchestrator_vars, dialogue_vars>>

\* FileSearchCommands.clear(args): confirmed is args.force or the answer "y"
Clear(confirmed) ==
    /\ IF confirmed
       THEN /\ indexed_directories' = {}
            /\ index_file' = save_index(index_file, {})
       ELSE UNCHANGED <<indexed_directories, index_file>>
    /\ ret' = Success(FALSE)
    /\ call' = Call("clear", 0)
    /\ UNCHANGED <<vector_stores, config_file>>
    /\ UNCHANGED <<active_chains, contexts, run, now, hist, runs, verifier_vars,
                   executor_vars, orchestrator_vars, dialogue_vars>>

NextIndex ==
    \/ \E directory \in Directories, vector_store \in StoreNames, isdir, uploaded \in BOOLEAN :
           Index(directory, vector_store, isdir, uploaded)
    \/ \E directory \in Directories : Remove(directory)
    \/ \E confirmed \in BOOLEAN : Clear(confirmed)

SpecIndex == Init /\ [][NextIndex]_vars

\* the directories listed under the stores of a configuration, as the
\* indexer names them
Listed(stores) ==
    UNION { { os_path_abspath(stores[n].directories[k]) :
                  k \in 1..Len(stores[n].directories) } : n \in DOMAIN stores }

\* C26: after every index that succeeded, and every remove or clear that
\* took an index snapshot away, the configuration file holds the stores as
\* they are and the directories listed under the stores are exactly the
\* directories that have a snapshot
C26_StoresListTheIndexedDirectories ==
    [][(\/ call'.op = "index" /\ ret'.kind = "success"
        \/ call'.op \in {"remove", "clear"} /\ indexed_directories' # indexed_directories) =>
           /\ config_file' = vector_stores'
           /\ Listed(config_file') = indexed_directories']_vars

-----------------------------------------------------------------------------
(* Claims about completing a chain early *)

\* C28: complete_chain on a known chain sets final_response and is_completed
\* and leaves steps and current_step_idx as they are; on a completed chain
\* with steps remaining, execute_step assigns no result and leaves the cursor
C28_CompleteChainTruncates ==
    [][\A c \in DOMAIN active_chains :
          LET chain == active_chains[c]
              after == active_chains'[c]
          IN  /\ (call'.op = "complete_chain" /\ call'.chain_id = c) =>
                     /\ after.is_completed
                     /\ after.steps = chain.steps
                     /\ after.current_step_idx = chain.current_step_idx
              /\ (call'.op = "execute_step" /\ call'.chain_id = c
                     /\ chain.is_completed /\ chain.current_step_idx < Len(chain.steps)) =>
                     /\ after.steps = chain.steps
                     /\ after.current_step_idx = chain.current_step_idx
      ]_vars

-----------------------------------------------------------------------------
(* Claims about the context handed to a step *)

\* get_step_context returns every entry's value under its key and, for
\* every i below step_id, previous_step_<i>_result exactly when
\* step_result_<i> is recorded, holding the recorded result; nothing else
StepContextReturned ==
    [][call'.op = "get_step_context" =>
          LET entries == get_context(contexts, call'.chain_id, now)[call'.chain_id]
              returned == ret'.context
          IN  /\ \A k \in DOMAIN entries :
                    k \in DOMAIN returned /\ returned[k] = entries[k].value
              /\ \A i \in 0..MaxSteps :
                    PreviousKey(i) \in DOMAIN returned <=>
                        (i < ret'.step_id /\ StepResultKey(i) \in DOMAIN entries)
              /\ \A i \in 0..MaxSteps :
                    PreviousKey(i) \in DOMAIN returned =>
                        returned[PreviousKey(i)] = entries[StepResultKey(i)].value
              /\ DOMAIN returned \subseteq
                    DOMAIN entries \cup { PreviousKey(i) : i \in 0..MaxSteps }
      ]_vars

\* C29: when the orchestrator has handed step k its context and waits for
\* the step's commands, the context holds previous_step_<i>_result for every
\* earlier step i of the run, equal to the result that step carries
C29_StepContextExposesEarlierResults ==
    run.pc = "await" =>
        LET handed == step_context(contexts[run.chain_id], run.idx)
        IN  \A i \in 0..(run.idx - 1) :
               /\ PreviousKey(i) \in DOMAIN handed
               /\ handed[PreviousKey(i)] = active_chains[run.chain_id].steps[i + 1].result

-----------------------------------------------------------------------------
(* CommandExecutor.execute_step: the dispatch of an execute_commands step   *)
(* on its tool_args                                                         *)

\* the file entries of tool_args["files"]: with a "path", and without one
FileEntries == { [path |-> <<"a">>], [path |-> <<"b", " ", "c">>], [name |-> <<"a">>] }
\* the lists of file entries
FileLists ==
    {<<>>} \cup { <<f>> : f \in FileEntries }
           \cup { <<[path |-> <<"a">>], f>> : f \in FileEntries }
\* the values of tool_args["action"]: the three known ones, an unknown one,
\* the empty string
StepActions == {"move", "copy", "delete", "rename", ""}
\* the values of tool_args["target_dir"]
TargetDirs == { <<"/", "h", "/", "w", "/", "d">> }
\* the values of tool_args["commands"]
CommandLists == UNION { Batches(n) : n \in 0..MaxBatch }

\* the dict d restricted to the keys in keys
Only(d, keys) == [k \in keys |-> d[k]]

\* the tool_args a step can carry: every key present or absent
ToolArgs ==
    { Only([commands |-> c, background |-> b, action |-> a, files |-> f, target_dir |-> t],
           keys) :
        c \in CommandLists, b \in BOOLEAN, a \in StepActions, f \in FileLists,
        t \in TargetDirs,
        keys \in SUBSET {"commands", "background", "action", "files", "target_dir"} }

\* step_args.get(key, default)
dict_get(d, key, default) == IF key \in DOMAIN d THEN d[key] ELSE default

RECURSIVE file_paths_str(_, _)
\* " ".join(f'"{file["path"]}"' for file in files), from entry i
file_paths_str(files, i) ==
    IF i > Len(files) THEN <<>>
    ELSE (IF i = 1 THEN <<>> ELSE <<" ">>) \o <<"\"">> \o files[i].path \o <<"\"">>
         \o file_paths_str(files, i + 1)

\* CommandExecutor.generate_command(action, files, target_dir): the command
\* string, or the KeyError of file["path"]
generate_command(action, files, target_dir) ==
    IF files = <<>> THEN [raised |-> FALSE, command |-> <<>>]
    ELSE IF \E i \in 1..Len(files) : "path" \notin DOMAIN files[i]
    THEN [raised |-> TRUE, command |-> <<>>]
    ELSE LET paths == file_paths_str(files, 1)
             mkdir == <<"m", "k", "d", "i", "r", " ", "-", "p", " ", "\"">> \o target_dir
             target == <<" ", "\"">> \o target_dir \o <<"\"">>
         IN  [raised |-> FALSE,
              command |->
                 CASE action = "move" ->
                        mkdir \o <<"\"", " ", "&", "&", " ", "m", "v", " ">> \o paths \o target
                   [] action = "copy" ->
                        mkdir \o <<"\"", " ", "&", "&", " ", "c", "p", " ">> \o paths \o target
                   [] action = "delete" -> <<"r", "m", " ">> \o paths
                   [] OTHER -> <<>>]

\* the dict execute_step returns when it dispatched nothing
MissingParameters ==
    Result(<<>>, FALSE, "Invalid command step: missing required parameters",
           ErrorOf("Missing required parameters"), -1)

\* execute_step falls through to its last return
ReturnsMissingParameters ==
    /\ last_result' = MissingParameters
    /\ call' = Call("execute_step", 0)
    /\ UNCHANGED <<command_history, unsafe_attempt_count, procs, launched, requested, batch,
                   tool_args, approved_directories, command_line, verdict, active_chains,
                   contexts, run, ret, now, hist, runs, orchestrator_vars, index_vars, dialogue_vars>>

\* execute_step is left by the exception of generate_command
RaisesKeyError ==
    /\ ret' = Error("KeyError: 'path'")
    /\ call' = Call("execute_step", 0)
    /\ UNCHANGED <<command_history, unsafe_attempt_count, procs, last_result, launched,
                   requested, batch, tool_args, approved_directories, command_line, verdict,
                   active_chains, contexts, run, now, hist, runs, orchestrator_vars,
                   index_vars, dialogue_vars>>

\* command_executor.execute_step(step, context) called: to the first
\* subprocess call of what it dispatches to, or to its return
ExecuteStepOfCommands ==
    /\ call.op = "init"
    /\ LET commands == dict_get(tool_args, "commands", <<>>)
           action == dict_get(tool_args, "action", "")
       IN  IF commands # <<>>
           THEN IF Len(commands) = 1 /\ dict_get(tool_args, "background", FALSE)
                THEN Execute(commands[1], TRUE)
                ELSE ExecuteCommands(commands)
           ELSE IF action # "" /\ "files" \in DOMAIN tool_args
                               /\ "target_dir" \in DOMAIN tool_args
           THEN LET command == generate_command(action, tool_args.files,
                                                tool_args.target_dir)
                IN  IF command.raised THEN RaisesKeyError
                    ELSE IF command.command # <<>> THEN Execute(command.command, FALSE)
                    ELSE ReturnsMissingParameters
           ELSE ReturnsMissingParameters

\* a step handed to the executor
InitStep ==
    /\ NoRequests
    /\ NoVerification
    /\ NoExecutions
    /\ NoIndex
    /\ NoDialogue
    /\ approved_directories = <<>>
    /\ tool_args \in ToolArgs

NextStep ==
    \/ ExecuteStepOfCommands
    \/ \E id \in 1..MaxRequests : Launch(id)
    \/ \E id \in 1..MaxRequests : Communicate(id)
    \/ BatchLaunch
    \/ BatchCommunicate

SpecStep == InitStep /\ [][NextStep]_vars

-----------------------------------------------------------------------------
(* Claims about the dispatch of a command step *)

\* the step of command_executor.execute_step from its call
StepCalled == call.op = "init" /\ call'.op # "init"

\* every entry of tool_args["files"], if there is one, names a path
FilesHavePaths ==
    "files" \in DOMAIN tool_args =>
        \A i \in 1..Len(tool_args.files) : "path" \in DOMAIN tool_args.files[i]

\* the dispatch as described: one command with background set goes to
\* execute_background_command; any other non-empty commands to
\* execute_commands; else action, files and target_dir with a non-empty
\* generated command go to execute_command with that command; in every
\* remaining case the failure result is returned and nothing is launched
DispatchedAsDescribed ==
    LET commands == IF "commands" \in DOMAIN tool_args THEN tool_args.commands ELSE <<>>
        background == "background" \in DOMAIN tool_args /\ tool_args.background
        generates == /\ {"action", "files", "target_dir"} \subseteq DOMAIN tool_args
                     /\ tool_args.action # ""
        generated == generate_command(tool_args.action, tool_args.files, tool_args.target_dir)
    IN  CASE commands # <<>> /\ Len(commands) = 1 /\ background ->
                /\ call'.op = "execute_background_command"
                /\ command_line' = commands[1]
                /\ batch' = batch
          [] commands # <<>> /\ ~(Len(commands) = 1 /\ background) ->
                /\ call'.op = "execute_commands"
                /\ batch'.commands = commands
                /\ procs' = procs
          [] commands = <<>> /\ generates /\ ~generated.raised /\ generated.command # <<>> ->
                /\ call'.op = "execute_command"
                /\ command_line' = generated.command
                /\ batch' = batch
          [] OTHER ->
                /\ call'.op = "execute_step"
                /\ ret'.kind # "error"
                /\ ~last_result'.success
                /\ last_result'.error = ErrorOf("Missing required parameters")
                /\ launched' = launched /\ procs' = procs /\ batch' = batch

\* the dispatch is as described for the tool_args whose file entries all
\* name a path
DispatchOfWellFormedSteps == [][(StepCalled /\ FilesHavePaths) => DispatchedAsDescribed]_vars

\* C30: execute_step dispatches as described for every shape of tool_args
C30_StepDispatch == [][StepCalled => DispatchedAsDescribed]_vars

-----------------------------------------------------------------------------
(* Claims about the result of execute_command *)

\* C31: an execute_command past its verification always ends by returning a
\* result for its command: with stdout, success and the output; else with
\* stderr, no success, the formatted error output and error set; else
\* success with the no-output marker; and when the subprocess call raises,
\* no success with the exception in error
C31_ExecuteCommandClassifies ==
    [][\A id \in DOMAIN procs :
          ~procs[id].background =>
             LET mine == call'.chain_id = id
                 r == last_result'
             IN  /\ \A out \in Outputs :
                       (mine /\ call'.op = "communicate" /\ Resumed(id, TRUE, out)) =>
                           IF out.stdout
                           THEN r.success /\ r.output = "stdout" /\ r.error = NoError
                           ELSE IF out.stderr
                           THEN ~r.success /\ r.output = "Error: stderr"
                                           /\ r.error = ErrorOf("stderr")
                           ELSE /\ r.success /\ r.error = NoError
                                /\ r.output = "Command executed successfully, but there was no output."
                 /\ (mine /\ Resumed(id, FALSE, CHOOSE out \in Outputs : TRUE)) =>
                        ~r.success /\ r.error = ErrorOf("exception")
                 /\ (mine /\ call'.op = "create_subprocess_shell" /\ id \notin DOMAIN procs') =>
                        ~r.success /\ r.error = ErrorOf("exception")
                 /\ (mine /\ id \notin DOMAIN procs') => r.command = procs[id].command
      ]_vars

\* a foreground command has finished with nothing on stdout and something
\* on stderr
C31_FinishedWithStderr ==
    /\ call.op = "communicate"
    /\ last_result.error = ErrorOf("stderr")
    /\ ~last_result.success

-----------------------------------------------------------------------------
(* The results of command steps absorbed by the context *)

\* what command_executor.execute_step hands back for a step that ran
\* commands: the result of execute_command or execute_background_command
\* with its "command", or the batch result of execute_commands with its
\* "commands" and no "command"
CommandResults ==
    { ResultDict(ok, "") @@ [command |-> c] : ok \in BOOLEAN, c \in ExecutorCommands }
    \cup { ResultDict(ok, "") @@ [commands |-> cs] :
              ok \in BOOLEAN, cs \in UNION { Batches(n) : n \in 1..MaxBatch } }

\* the commands a result says were run
commands_run(result) ==
    IF "commands" \in DOMAIN result THEN result.commands ELSE <<result.command>>

NextAbsorb ==
    \/ /\ active_chains = <<>>
       /\ CreateChain
       /\ UNCHANGED <<hist, runs>>
    \/ \E chain_id \in ChainIds, step_result \in CommandResults, step_id \in 0..(MaxSteps - 1) :
          UpdateContextFromStepResult(chain_id, step_result, step_id, "execute_commands")

SpecAbsorb == Init /\ [][NextAbsorb]_vars

\* C32: every result of a command step absorbed by the context appends the
\* commands the step ran, in order, to command_history, makes last_command
\* the last of them and last_command_success the success of the result
C32_HistoryListsTheCommandsRun ==
    [][\A chain_id \in ChainIds, step_result \in CommandResults, step_id \in 0..(MaxSteps - 1) :
          UpdateContextFromStepResult(chain_id, step_result, step_id, "execute_commands") =>
             LET entries == get_context(contexts, chain_id, now)[chain_id]
                 before == IF Key("command_history") \in DOMAIN entries
                           THEN entries[Key("command_history")].value.items ELSE <<>>
                 after == contexts'[chain_id]
                 ran == commands_run(step_result)
             IN  /\ after[Key("command_history")].value.items = before \o ran
                 /\ after[Key("last_command")].value.text = ran[Len(ran)]
                 /\ after[Key("last_command_success")].value.success = step_result.success
      ]_vars

-----------------------------------------------------------------------------
(* Claims about what verification leaves behind *)

\* C33: verify_command_with_context leaves the list held under
\* approved_directories in the context it is given as it was, whether it
\* accepts or rejects the command
C33_VerificationLeavesTheContext ==
    [][call'.op = "verify_command_with_context" =>
          approved_directories' = approved_directories]_vars

-----------------------------------------------------------------------------
(* Claims about generated commands *)

\* path, made absolute, lies under the home directory or a directory of the
\* context's approved list
UnderApproved(path) ==
    is_approved(IF StartsWithAt(path, 1, <<"/">>) THEN path ELSE abspath(path),
                Append(approved_directories, HOME_DIR))

\* C34: a step in the action/files/target_dir form with action move, copy
\* or delete, a non-empty file list and every path and the target under an
\* approved directory has its generated command launched, not rejected
C34_GeneratedCommandIsLaunched ==
    [][(/\ StepCalled
        /\ dict_get(tool_args, "commands", <<>>) = <<>>
        /\ {"action", "files", "target_dir"} \subseteq DOMAIN tool_args
        /\ tool_args.action \in {"move", "copy", "delete"}
        /\ tool_args.files # <<>>
        /\ FilesHavePaths
        /\ \A i \in 1..Len(tool_args.files) : UnderApproved(tool_args.files[i].path)
        /\ UnderApproved(tool_args.target_dir)) =>
           /\ call'.op = "execute_command"
           /\ ~verdict'.is_dangerous
           /\ \E id \in DOMAIN procs' \ DOMAIN procs :
                 procs'[id].command = command_line'
      ]_vars

-----------------------------------------------------------------------------
(* The orchestrator of openai_response.py when every awaited call returns: *)
(* the model API, the file search and the executor hand back their value,  *)
(* and the event loop resumes the coroutine that waits for it.             *)

NextReturning ==
    \/ RunReasoningChain
    \/ PlanningReturnsPlan
    \/ PlanningReturnsText
    \/ ToolReturns
    \/ CompletionReturns
    \/ FallbackReturns
    \/ /\ Cardinality(DOMAIN active_chains) < MaxChains
       /\ CreateChain
       /\ UNCHANGED <<hist, runs>>
    \/ \E chain_id \in Others :
          \/ Plan(chain_id) /\ UNCHANGED <<hist, runs>>
          \/ RunStart(chain_id)
    \/ RunResume

SpecReturning ==
    /\ Init
    /\ [][NextReturning]_vars
    /\ WF_vars(ToolReturns)
    /\ WF_vars(CompletionReturns)

-----------------------------------------------------------------------------
(* Claims about the completion of a started chain *)

\* the coroutine has started a step of its chain
Started == \E k \in 1..Len(executed) : executed[k].by = 0 /\ executed[k].event = "start"

\* the coroutine's chain is completed and carries a final response
Done ==
    /\ conversation.chain_id \in DOMAIN active_chains
    /\ active_chains[conversation.chain_id].is_completed
    /\ active_chains[conversation.chain_id].final_response # NoneResponse

\* complete_chain is called on the coroutine's chain when every step has
\* its result and the chain has no final response yet
CompletedOnceAfterTheSteps ==
    [][(conversation.pc = "completing" /\ conversation'.pc = "returned") =>
          LET chain == active_chains[conversation.chain_id]
          IN  /\ \A i \in 1..Len(chain.steps) : chain.steps[i].is_completed
              /\ chain.final_response = NoneResponse
              /\ active_chains'[conversation.chain_id].final_response # NoneResponse
      ]_vars

\* when every awaited call returns, a started chain is completed with its
\* final response unless the dispatch of one of its steps raises
CompletesUnlessDispatchRaises ==
    /\ Started ~> (Done \/ conversation.pc = "raised")
    /\ CompletedOnceAfterTheSteps

\* C35: when every awaited call returns, a chain whose first step has been
\* started is eventually completed with its final response set, and
\* complete_chain is called on it once, after every step has its result
C35_StartedChainCompletes ==
    /\ Started ~> Done
    /\ CompletedOnceAfterTheSteps

-----------------------------------------------------------------------------
(* run_conversation of openai_response.py and the process-wide             *)
(* conversation_history.  The coroutine suspends in the complexity check,  *)
(* in run_reasoning_chain (its planning call, the execution of the plan),  *)
(* in the model call with the tools, in each tool and in the follow-up     *)
(* call; one user turn is handled at a time.                               *)

MaxTurns == 3
MaxDepth == 2
MaxToolCalls == 2
\* "Keep last 10 messages"
KEEP_LAST == 10

Message(role, content, tool_calls, tool_call_id, name) ==
    [role |-> role, content |-> content, tool_calls |-> tool_calls,
     tool_call_id |-> tool_call_id, name |-> name]
SystemMessage == Message("system", "system prompt", <<>>, 0, "")
UserMessage == Message("user", "transcription", <<>>, 0, "")
AssistantToolCalls(tool_calls) == Message("assistant", "None", tool_calls, 0, "")
ToolMessage(tool_call) == Message("tool", "output", <<>>, tool_call.id, tool_call.name)
AssistantMessage == Message("assistant", ASSISTANT_RESPONSE, <<>>, 0, "")

\* the functions a tool call of the model can name: the two of the tools
\* array and any other
FunctionNames == {"execute_commands", "search_files", "other"}
\* the tool_calls of a response: tool call i carries the id i
ToolCalls ==
    UNION { { [i \in 1..k |-> [id |-> i, name |-> names[i]]] : names \in [1..k -> FunctionNames] }
            : k \in 0..MaxToolCalls }

\* list[-k:]
Last(list, k) ==
    IF Len(list) <= k THEN list ELSE SubSeq(list, Len(list) - k + 1, Len(list))

\* what a step of run_conversation leaves behind
Dialogue(history, t) == [history |-> history, turn |-> t]

\* run_conversation(transcription) up to the complexity check: the user
\* message is appended and messages is built from the history
run_conversation(history, t) ==
    LET appended == Append(history, UserMessage)
    IN  Dialogue(appended,
                 [t EXCEPT !.pc = "classifying", !.depth = t.depth + 1,
                           !.messages = <<SystemMessage>> \o appended,
                           !.tool_calls = <<>>, !.next = 0, !.followup = <<>>])

\* the end of run_conversation: the answer is appended and the history
\* trimmed
answered(history, t) ==
    LET appended == Append(history, AssistantMessage)
    IN  Dialogue(IF Len(appended) > KEEP_LAST THEN Last(appended, KEEP_LAST) ELSE appended,
                 [t EXCEPT !.pc = "returned"])

RECURSIVE process_tool_calls(_, _, _)
\* the loop over response_message.tool_calls from tool call i up to the
\* next suspension: in a tool, or in the follow-up call, whose messages
\* are messages + conversation_history[-2:]
process_tool_calls(history, t, i) ==
    IF i > Len(t.tool_calls)
    THEN Dialogue(history, [t EXCEPT !.pc = "final", !.next = 0,
                                     !.followup = t.messages \o Last(history, 2)])
    ELSE IF t.tool_calls[i].name \in {"execute_commands", "search_files"}
    THEN Dialogue(history, [t EXCEPT !.pc = "tool", !.next = i])
    ELSE process_tool_calls(history, t, i + 1)

\* the coroutine goes on to d
Becomes_dialogue(d, op) ==
    /\ conversation_history' = d.history
    /\ turn' = d.turn
    /\ call' = Call(op, 0)
    /\ UNCHANGED <<active_chains, contexts, run, ret, now, hist, runs, verifier_vars,
                   executor_vars, orchestrator_vars, index_vars>>

\* a user turn: run_conversation(transcription) is called
RunConversation ==
    /\ turn.pc \in {"idle", "returned", "raised"}
    /\ turn.n < MaxTurns
    /\ Becomes_dialogue(run_conversation(conversation_history,
                                         [turn EXCEPT !.n = turn.n + 1, !.depth = 0,
                                                      !.classified = 0]),
                        "run_conversation")

\* the complexity check returns: COMPLEX with STEP in the answer hands the
\* request to run_reasoning_chain, which suspends in its planning call
ClassificationReturns(complex) ==
    /\ turn.pc = "classifying"
    /\ Becomes_dialogue(Dialogue(conversation_history,
                                 [turn EXCEPT !.pc = IF complex THEN "planning"
                                                     ELSE "responding",
                                              !.classified = turn.classified + 1]),
                        "complexity_check")

\* the planning call of run_reasoning_chain returns a plan with steps,
\* whose execution is awaited
PlanningReturnsSteps ==
    /\ turn.pc = "planning"
    /\ Becomes_dialogue(Dialogue(conversation_history, [turn EXCEPT !.pc = "executing"]),
                        "planning")

\* the planning call returns no plan_reasoning tool call: "Fallback if
\* planning fails", return await run_conversation(query)
PlanningFails ==
    /\ turn.pc = "planning"
    /\ turn.depth < MaxDepth
    /\ Becomes_dialogue(run_conversation(conversation_history, turn), "planning")

\* the execution of the plan returns and run_reasoning_chain returns its
\* announcement, which run_conversation returns
ChainReturns ==
    /\ turn.pc = "executing"
    /\ Becomes_dialogue(Dialogue(conversation_history, [turn EXCEPT !.pc = "returned"]),
                        "run_reasoning_chain")

\* the model call with the tools returns its message
ResponseReturns(tool_calls) ==
    /\ turn.pc = "responding"
    /\ Becomes_dialogue(IF tool_calls = <<>>
                        THEN answered(conversation_history, turn)
                        ELSE process_tool_calls(
                                 Append(conversation_history, AssistantToolCalls(tool_calls)),
                                 [turn EXCEPT !.tool_calls = tool_calls], 1),
                        "response")

\* the awaited tool returns its output, which is appended as a tool message
ToolCallReturns ==
    /\ turn.pc = "tool"
    /\ Becomes_dialogue(process_tool_calls(
                            Append(conversation_history,
                                   ToolMessage(turn.tool_calls[turn.next])),
                            turn, turn.next + 1),
                        "tool")

\* the follow-up call returns the final response
FinalResponseReturns ==
    /\ turn.pc = "final"
    /\ Becomes_dialogue(answered(conversation_history, turn), "final_response")

\* an awaited call raises, and the exception leaves run_conversation
CallRaises ==
    /\ turn.pc \in {"classifying", "planning", "executing", "responding", "tool", "final"}
    /\ Becomes_dialogue(Dialogue(conversation_history, [turn EXCEPT !.pc = "raised"]),
                        "raise")

NextDialogue ==
    \/ RunConversation
    \/ \E complex \in BOOLEAN : ClassificationReturns(complex)
    \/ PlanningReturnsSteps
    \/ PlanningFails
    \/ ChainReturns
    \/ \E tool_calls \in ToolCalls : ResponseReturns(tool_calls)
    \/ ToolCallReturns
    \/ FinalResponseReturns
    \/ CallRaises

SpecDialogue == Init /\ [][NextDialogue]_vars

-----------------------------------------------------------------------------
(* Claims about run_conversation *)

\* C36: when the planning call of run_reasoning_chain yields no plan, the
\* query is answered single-shot: the next model call is the one with the
\* tools, the complexity check is not made again, and so one user turn
\* makes the complexity check at most once
C36_FallbackAnswersSingleShot ==
    [][/\ (turn.pc = "planning" /\ call'.op = "planning" /\ turn'.pc # "executing") =>
              /\ turn'.pc = "responding"
              /\ turn'.classified = turn.classified
       /\ turn'.classified <= 1
      ]_vars

\* C37: when the model call with the tools returns k >= 1 tool calls, the
\* follow-up request carries the original messages, then the assistant
\* message with the tool calls, then one tool message for each tool call,
\* in order, and nothing else
C37_FollowUpCarriesEveryToolResult ==
    [][(call'.op \in {"response", "tool"} /\ turn'.pc = "final") =>
          turn'.followup = turn'.messages
                           \o <<AssistantToolCalls(turn'.tool_calls)>>
                           \o [i \in 1..Len(turn'.tool_calls) |->
                                   ToolMessage(turn'.tool_calls[i])]
      ]_vars

\* C38: when a call of run_conversation has returned, by whichever route,
\* conversation_history holds at most 10 messages
C38_HistoryAtMostTen ==
    turn.pc = "returned" => Len(conversation_history) <= KEEP_LAST

\* the follow-up request after a single tool call that names a function
\* of the tools array: the messages, the assistant message, its result
FollowUpAfterOneServedToolCall ==
    [][(/\ call'.op \in {"response", "tool"}
        /\ turn'.pc = "final"
        /\ Len(turn'.tool_calls) = 1
        /\ turn'.tool_calls[1].name # "other") =>
          turn'.followup = turn'.messages
                           \o <<AssistantToolCalls(turn'.tool_calls),
                                ToolMessage(turn'.tool_calls[1])>>
      ]_vars

\* a call of run_conversation that answers itself leaves at most 10 messages
SingleShotKeepsTen ==
    (turn.pc = "returned" /\ call.op \in {"response", "final_response"}) =>
        Len(conversation_history) <= KEEP_LAST

-----------------------------------------------------------------------------
(* Claims about the index file *)

\* C39: after index, remove and clear the index file holds exactly the
\* directories of the in-memory index, also when the index is left empty,
\* and a confirmed clear reports success
C39_IndexFileReflectsTheIndex ==
    [][/\ call'.op \in {"index", "remove", "clear"} => index_file' = indexed_directories'
       /\ Clear(TRUE) => ret' = Success(TRUE)
      ]_vars

\* the index file holds the in-memory index whenever that is not empty
IndexFileReflectsANonEmptyIndex ==
    indexed_directories # {} => index_file = indexed_directories

-----------------------------------------------------------------------------
(* Claims about the executor's accounting under interleaving *)

\* C40: with executions suspended in their subprocess call or in
\* communicate while others are called, every rejected call adds one to
\* unsafe_attempt_count and nothing to command_history, every accepted call
\* appends its one entry at the end of command_history, the resumptions of
\* suspended executions change neither, and so the counter is the number
\* of rejected calls and the history the accepted calls in the order of
\* their verification
C40_NoAccountingUpdateIsLost ==
    [][/\ call'.op \in {"execute_command", "execute_background_command"} =>
            LET accepted == verify_command_with_context(command_line',
                                                        approved_directories).is_safe
                entry == history_entry(command_line',
                                       call'.op = "execute_background_command")
            IN  /\ requested' = requested + 1
                /\ unsafe_attempt_count' = unsafe_attempt_count + (IF accepted THEN 0 ELSE 1)
                /\ command_history' = IF accepted THEN Append(command_history, entry)
                                      ELSE command_history
       /\ call'.op \in {"create_subprocess_shell", "communicate"} =>
            /\ command_history' = command_history
            /\ unsafe_attempt_count' = unsafe_attempt_count
            /\ requested' = requested
       /\ unsafe_attempt_count' + Len(command_history') = requested'
      ]_vars

\* C40 witness: a call is rejected and counted while an accepted execution
\* is suspended in communicate
C40_RejectedWhileAnotherIsSuspended ==
    /\ call.op \in {"execute_command", "execute_background_command"}
    /\ verdict.is_dangerous
    /\ unsafe_attempt_count = 1
    /\ Len(command_history) = 1
    /\ \E id \in DOMAIN procs : procs[id].pc = "communicate"

=============================================================================
